---- MODULE Spec2Model ----
(***************************************************************************)
(* Titan Finance: the Risk Governor (services/risk), the Execution Engine  *)
(* (services/execution) and the message contracts between them.            *)
(*                                                                         *)
(* Units.  Money that the RiskEngine holds (equity, daily P&L) is in whole *)
(* dollars.  Prices are in cents.  Percentages of the configuration are in *)
(* basis points (0.03 = 300 bp).  Trade returns are in basis points.  The  *)
(* rolling Sharpe ratio is in units of 10^-4, which is the precision the   *)
(* code rounds it to.  Python floats are modelled by exact arithmetic on   *)
(* these units; the input sets are chosen so that every division the code  *)
(* performs on them is exact.                                              *)
(***************************************************************************)
EXTENDS Integers, Sequences, FiniteSets, TLC

(***************************************************************************)
(* Configuration (environment variables read at start-up).  The values    *)
(* are those of a deployment with RISK_MAX_DAILY_LOSS=0.03,                *)
(* CIRCUIT_BREAKER_CONSECUTIVE_LOSSES=3, RISK_PER_TRADE=0.001,             *)
(* ROLLBACK_MIN_SHARPE=0.5, ROLLBACK_MIN_ACCURACY=0.50 and                 *)
(* RISK_PERF_CHECK_INTERVAL=2.                                             *)
(***************************************************************************)
MAX_DAILY_LOSS_BP == 300
MAX_CONSECUTIVE_LOSSES == 3
RISK_PER_TRADE_BP == 10
ROLLBACK_MIN_SHARPE_E4 == 5000
ROLLBACK_MIN_ACCURACY_PCT == 50
PERFORMANCE_CHECK_INTERVAL == 2

(***************************************************************************)
(* Constants fixed in the code                                             *)
(***************************************************************************)
WINDOW_SIZE == 20
MIN_SAMPLES == 5
ANNUALISATION == 252

(***************************************************************************)
(* Bounds of the model                                                     *)
(***************************************************************************)
MaxSamples == 5
MaxLosses == 3
MaxRequests == 2
MaxCommands == 1
MaxFills == 2

Equities == {100000}
DailyPnls == {-3000, 0}
Returns == {-100, 100}
\* (correct, trade_return) pairs handed to record_prediction
Predictions == {<<TRUE, 100>>, <<TRUE, -100>>, <<FALSE, 100>>}

(***************************************************************************)
(* Optional values (Python's None)                                         *)
(***************************************************************************)
None == [none |-> TRUE, v |-> 0, den |-> 1]
Some(x) == [none |-> FALSE, v |-> x, den |-> 1]
Frac(n, d) == [none |-> FALSE, v |-> n, den |-> d]

Abs(x) == IF x < 0 THEN -x ELSE x

RECURSIVE SumSeq(_)
SumSeq(s) == IF s = << >> THEN 0 ELSE Head(s) + SumSeq(Tail(s))

RECURSIVE SumSq(_)
SumSq(s) == IF s = << >> THEN 0 ELSE Head(s) * Head(s) + SumSq(Tail(s))

RECURSIVE CountTrue(_)
CountTrue(s) ==
    IF s = << >> THEN 0
    ELSE (IF Head(s) THEN 1 ELSE 0) + CountTrue(Tail(s))

(***************************************************************************)
(* Square root of the rational num/den to k decimal digits, truncated:     *)
(* the schoolbook digit-by-digit method, which never forms a number larger *)
(* than 200 times the result.                                              *)
(***************************************************************************)
IntSqrt(n) == CHOOSE r \in 0..n : r * r <= n /\ (r + 1) * (r + 1) > n

RECURSIVE SqrtDigits(_, _, _, _, _)
SqrtDigits(root, rem, r, den, k) ==
    IF k = 0 THEN root
    ELSE LET pair == (r * 100) \div den
             rem2 == rem * 100 + pair
             x    == CHOOSE d \in 0..9 :
                        /\ (20 * root + d) * d <= rem2
                        /\ (d = 9 \/ (20 * root + d + 1) * (d + 1) > rem2)
         IN  SqrtDigits(10 * root + x, rem2 - (20 * root + x) * x,
                        (r * 100) % den, den, k - 1)

SqrtTrunc(num, den, k) ==
    LET q0 == num \div den
        r0 == IntSqrt(q0)
    IN  SqrtDigits(r0, q0 - r0 * r0, num % den, den, k)

(***************************************************************************)
(* RiskEngine (services/risk/risk_engine.py)                               *)
(***************************************************************************)
RiskEngineInit ==
    [ starting_equity         |-> 0,
      current_equity          |-> 0,
      daily_pnl               |-> 0,
      consecutive_losses      |-> 0,
      recent_predictions      |-> << >>,
      recent_returns          |-> << >>,
      is_kill_switch_active   |-> FALSE,
      is_manual_approval_mode |-> FALSE ]

update_account_state(e, equity, daily_pnl) ==
    [e EXCEPT !.current_equity = equity,
              !.daily_pnl = daily_pnl,
              !.starting_equity = IF @ = 0 THEN equity - daily_pnl ELSE @]

\* variant: the flag follows the current evaluation of the limits
check_kill_switch_recomputed(e) ==
    LET tripped == /\ e.starting_equity > 0
                   /\ \/ e.daily_pnl * 10000 <= -(MAX_DAILY_LOSS_BP * e.starting_equity)
                      \/ e.consecutive_losses >= MAX_CONSECUTIVE_LOSSES
    IN  [eng |-> [e EXCEPT !.is_kill_switch_active = tripped], ret |-> tripped]

\* result: the engine afterwards and the value returned
check_kill_switch(e) ==
    IF e.starting_equity <= 0
    THEN [eng |-> e, ret |-> FALSE]
    ELSE IF e.daily_pnl * 10000 <= -(MAX_DAILY_LOSS_BP * e.starting_equity)
    THEN [eng |-> [e EXCEPT !.is_kill_switch_active = TRUE], ret |-> TRUE]
    ELSE IF e.consecutive_losses >= MAX_CONSECUTIVE_LOSSES
    THEN [eng |-> [e EXCEPT !.is_kill_switch_active = TRUE], ret |-> TRUE]
    ELSE [eng |-> e, ret |-> FALSE]

record_trade_result(e, pnl) ==
    IF pnl < 0
    THEN [e EXCEPT !.consecutive_losses = @ + 1]
    ELSE [e EXCEPT !.consecutive_losses = 0]

\* variant: the quotient is rounded to the nearest unit
calculate_position_size_rounded(e, entry_price, stop_loss) ==
    IF e.is_kill_switch_active THEN 0
    ELSE LET risk_per_share == Abs(entry_price - stop_loss)
         IN  IF risk_per_share = 0 THEN 0
             ELSE (2 * e.current_equity * RISK_PER_TRADE_BP + 100 * risk_per_share)
                      \div (200 * risk_per_share)

\* entry_price and stop_loss in cents; current_equity in dollars
calculate_position_size(e, entry_price, stop_loss) ==
    IF e.is_kill_switch_active THEN 0
    ELSE LET risk_per_share == Abs(entry_price - stop_loss)
         IN  IF risk_per_share = 0 THEN 0
             ELSE (e.current_equity * RISK_PER_TRADE_BP)
                      \div (100 * risk_per_share)

\* variant: only the kill switch suppresses a signal
validate_signal_kill_switch_only(e) == ~e.is_kill_switch_active

validate_signal(e) ==
    IF e.is_kill_switch_active THEN FALSE
    ELSE IF e.is_manual_approval_mode THEN FALSE
    ELSE TRUE

Trim(w) == IF Len(w) > WINDOW_SIZE THEN Tail(w) ELSE w

record_prediction(e, correct, trade_return) ==
    [e EXCEPT !.recent_predictions = Trim(Append(@, correct)),
              !.recent_returns = Trim(Append(@, trade_return))]

\* variant: no minimum number of samples
get_rolling_accuracy_any(e) ==
    IF Len(e.recent_predictions) = 0 THEN None
    ELSE Frac(CountTrue(e.recent_predictions), Len(e.recent_predictions))

get_rolling_accuracy(e) ==
    IF Len(e.recent_predictions) < MIN_SAMPLES THEN None
    ELSE Frac(CountTrue(e.recent_predictions), Len(e.recent_predictions))

\* mean/std = S / sqrt(n*Q - S*S) where S is the sum and Q the sum of squares
get_rolling_sharpe(e) ==
    IF Len(e.recent_returns) < MIN_SAMPLES THEN None
    ELSE LET n == Len(e.recent_returns)
             S == SumSeq(e.recent_returns)
             D == n * SumSq(e.recent_returns) - S * S
         IN  IF D = 0 THEN None
             ELSE LET f5 == SqrtTrunc(ANNUALISATION * S * S, D, 5)
                      r4 == (f5 + 5) \div 10
                  IN  Some(IF S < 0 THEN -r4 ELSE r4)

\* variant: the rollback is applied but not reported to the caller
check_model_performance_silent(e) ==
    IF e.is_manual_approval_mode
    THEN [eng |-> e, ret |-> FALSE]
    ELSE LET sharpe    == get_rolling_sharpe(e)
             accuracy  == get_rolling_accuracy(e)
             triggered ==
                 \/ (~sharpe.none /\ sharpe.v < ROLLBACK_MIN_SHARPE_E4)
                 \/ (~accuracy.none
                       /\ accuracy.v * 100 < ROLLBACK_MIN_ACCURACY_PCT * accuracy.den)
         IN  [eng |-> IF triggered
                      THEN [e EXCEPT !.is_manual_approval_mode = TRUE]
                      ELSE e,
              ret |-> FALSE]

check_model_performance(e) ==
    IF e.is_manual_approval_mode
    THEN [eng |-> e, ret |-> FALSE]
    ELSE LET sharpe    == get_rolling_sharpe(e)
             accuracy  == get_rolling_accuracy(e)
             triggered ==
                 \/ (~sharpe.none /\ sharpe.v < ROLLBACK_MIN_SHARPE_E4)
                 \/ (~accuracy.none
                       /\ accuracy.v * 100 < ROLLBACK_MIN_ACCURACY_PCT * accuracy.den)
         IN  [eng |-> IF triggered
                      THEN [e EXCEPT !.is_manual_approval_mode = TRUE]
                      ELSE e,
              ret |-> triggered]

reset_manual_approval_mode(e) ==
    [e EXCEPT !.is_manual_approval_mode = FALSE]

\* variant: the reset clears both control flags
reset_kill_switch_both_flags(e) ==
    [e EXCEPT !.is_kill_switch_active = FALSE,
              !.is_manual_approval_mode = FALSE,
              !.consecutive_losses = 0,
              !.starting_equity = e.current_equity,
              !.daily_pnl = 0]

reset_kill_switch(e) ==
    [e EXCEPT !.is_kill_switch_active = FALSE,
              !.consecutive_losses = 0,
              !.starting_equity = e.current_equity,
              !.daily_pnl = 0]

(***************************************************************************)
(* Message payloads are JSON objects: functions from the keys present to   *)
(* their values.  Get is dict.get with a default.                          *)
(***************************************************************************)
Get(d, k, default) == IF k \in DOMAIN d THEN d[k] ELSE default

Restrict(d, keys) == [k \in keys |-> d[k]]

\* str.upper() on the strings that occur
Upper(s) ==
    CASE s = "buy" -> "BUY"
      [] s = "sell" -> "SELL"
      [] s = "hold" -> "HOLD"
      [] OTHER -> s

\* str.lower() on the strings that occur
Lower(s) ==
    CASE s = "BUY" -> "buy"
      [] s = "SELL" -> "sell"
      [] s = "HOLD" -> "hold"
      [] OTHER -> s

LiquidateAll(reason) ==
    [command |-> "LIQUIDATE_ALL", reason |-> reason,
     rolling_sharpe |-> None, rolling_accuracy |-> None]

ActivateManualApproval(sharpe, accuracy) ==
    [command |-> "ACTIVATE_MANUAL_APPROVAL",
     reason |-> "model_performance_below_threshold",
     rolling_sharpe |-> sharpe, rolling_accuracy |-> accuracy]

(***************************************************************************)
(* Risk Governor message loop (services/risk/main.py)                      *)
(***************************************************************************)
\* price * (0.98 if BUY else 1.02), price in cents
StopLoss(data, price) ==
    IF Get(data, "signal", "") = "BUY"
    THEN (price * 98) \div 100
    ELSE (price * 102) \div 100

\* variant: the signal's own word is forwarded as the side
ExecutionPayload_signal_as_side(data, units) ==
    [model_id   |-> Get(data, "model_id", "unknown"),
     symbol     |-> data["symbol"],
     qty        |-> units,
     side       |-> Get(data, "signal", ""),
     type       |-> "market",
     confidence |-> Get(data, "confidence", 0)]

ExecutionPayload(data, units) ==
    [model_id   |-> Get(data, "model_id", "unknown"),
     symbol     |-> data["symbol"],
     qty        |-> units,
     side       |-> IF Get(data, "signal", "") = "BUY" THEN "buy" ELSE "sell",
     type       |-> "market",
     confidence |-> Get(data, "confidence", 0)]

Dropped(e, sp) ==
    [eng |-> e, sp |-> sp, requests |-> << >>, commands |-> << >>]

\* The body of the loop for one trade_signals message: the engine and the
\* counter afterwards, and the messages published on execution_requests and
\* on risk_commands, in order.
HandleTradeSignal(e, sp, data) ==
    IF ~validate_signal(e)
    THEN [Dropped(e, sp) EXCEPT !.commands =
             IF e.is_kill_switch_active
             THEN << LiquidateAll("kill_switch_active") >>
             ELSE << >>]
    ELSE LET ks == check_kill_switch(e) IN
    IF ks.ret
    THEN [Dropped(ks.eng, sp) EXCEPT !.commands =
             << LiquidateAll("drawdown_or_consecutive_loss_limit_breached") >>]
    ELSE LET price == Get(data, "price", 0) IN
    IF price <= 0
    THEN Dropped(ks.eng, sp)
    ELSE LET units == calculate_position_size(ks.eng, price, StopLoss(data, price)) IN
    IF units <= 0
    THEN Dropped(ks.eng, sp)
    ELSE IF "symbol" \notin DOMAIN data
    THEN Dropped(ks.eng, sp)     \* KeyError, caught by the loop's except
    ELSE LET sp2 == sp + 1
             due == sp2 % PERFORMANCE_CHECK_INTERVAL = 0
             mp  == IF due THEN check_model_performance(ks.eng)
                    ELSE [eng |-> ks.eng, ret |-> FALSE]
         IN  [eng      |-> mp.eng,
              sp       |-> sp2,
              requests |-> << ExecutionPayload(data, units) >>,
              commands |-> IF mp.ret
                           THEN << ActivateManualApproval(
                                       get_rolling_sharpe(mp.eng),
                                       get_rolling_accuracy(mp.eng)) >>
                           ELSE << >>]

\* The body of the loop for one execution_filled message.  slippage and
\* price in cents, the proxy return in basis points.
\* -slippage / price in units of 10^-4, rounded away from zero: a return
\* that is not zero keeps its sign, as the float quotient does
ReturnE4(slippage, price) ==
    IF slippage <= 0 THEN ((-slippage) * 10000 + price - 1) \div price
    ELSE -((slippage * 10000 + price - 1) \div price)

\* variant: the direction is judged as for a BUY whatever the side
HandleExecutionFilled_side_ignored(e, data) ==
    LET price    == Get(data, "price", 0)
        slippage == Get(data, "slippage", 0)
    IN  IF price > 0
        THEN LET raw_return == ReturnE4(slippage, price)
             IN  record_prediction(record_trade_result(e, raw_return),
                                   raw_return >= 0, raw_return)
        ELSE e

\* variant: fills are not recorded while a flag is set
HandleExecutionFilled_idle_when_blocked(e, data) ==
    LET price    == Get(data, "price", 0)
        slippage == Get(data, "slippage", 0)
        side     == Upper(Get(data, "side", "BUY"))
    IN  IF price > 0 /\ ~(e.is_kill_switch_active \/ e.is_manual_approval_mode)
        THEN LET raw_return == ReturnE4(slippage, price)
                 correct_direction ==
                     IF side = "BUY" THEN raw_return >= 0 ELSE raw_return <= 0
             IN  record_prediction(record_trade_result(e, raw_return),
                                   correct_direction, raw_return)
        ELSE e

HandleExecutionFilled(e, data) ==
    LET price    == Get(data, "price", 0)
        slippage == Get(data, "slippage", 0)
        side     == Upper(Get(data, "side", "BUY"))
    IN  IF price > 0
        THEN LET raw_return == ReturnE4(slippage, price)
                 correct_direction ==
                     IF side = "BUY" THEN raw_return >= 0 ELSE raw_return <= 0
             IN  record_prediction(record_trade_result(e, raw_return),
                                   correct_direction, raw_return)
        ELSE e

(***************************************************************************)
(* Paper ledger (services/execution/core/portfolio.py, core/manager.py).   *)
(* Cash and prices in cents.  avg_price is a quotient of integers and is   *)
(* kept as a reduced fraction num/den.                                     *)
(***************************************************************************)
RECURSIVE GCD(_, _)
GCD(a, b) == IF b = 0 THEN a ELSE GCD(b, a % b)

Reduced(n, d) ==
    LET g == GCD(Abs(n), Abs(d))
        sgn == IF d < 0 THEN -1 ELSE 1
    IN  IF g = 0 THEN [num |-> 0, den |-> 1]
        ELSE [num |-> sgn * (n \div g), den |-> sgn * (d \div g)]

STARTING_CASH == 10000000

VirtualPortfolio(portfolio_id, starting_cash) ==
    [id |-> portfolio_id, cash |-> starting_cash, initial_cash |-> starting_cash,
     positions |-> << >>, history |-> << >>]

\* variant: a position brought to zero stays in the mapping
update_from_fill_keeps_flat(vp, fill_event) ==
    LET symbol     == fill_event.symbol
        qty        == fill_event.qty
        price      == fill_event.price
        side       == Lower(fill_event.side)
        signed_qty == IF side = "buy" THEN qty ELSE -qty
        cost       == signed_qty * price
        cash2      == vp.cash - cost
        current    == IF symbol \in DOMAIN vp.positions
                      THEN vp.positions[symbol]
                      ELSE [qty |-> 0, avg_price |-> [num |-> 0, den |-> 1]]
        new_qty    == current.qty + signed_qty
        avg2       == IF side = "buy" /\ new_qty # 0
                      THEN Reduced(current.qty * current.avg_price.num
                                       + cost * current.avg_price.den,
                                   current.avg_price.den * new_qty)
                      ELSE current.avg_price
    IN  [vp EXCEPT !.cash = cash2,
                   !.positions = [sym \in DOMAIN vp.positions \cup {symbol} |->
                                     IF sym = symbol
                                     THEN [qty |-> new_qty, avg_price |-> avg2]
                                     ELSE vp.positions[sym]],
                   !.history = Append(@, [symbol |-> symbol, side |-> side,
                                          qty |-> Abs(signed_qty), price |-> price,
                                          remaining_cash |-> cash2])]

\* variant: the value of every fill is taken out of cash, whatever its side
update_from_fill_unsigned(vp, fill_event) ==
    LET symbol     == fill_event.symbol
        qty        == fill_event.qty
        price      == fill_event.price
        side       == Lower(fill_event.side)
        signed_qty == IF side = "buy" THEN qty ELSE -qty
        cost       == qty * price
        cash2      == vp.cash - cost
        current    == IF symbol \in DOMAIN vp.positions
                      THEN vp.positions[symbol]
                      ELSE [qty |-> 0, avg_price |-> [num |-> 0, den |-> 1]]
        new_qty    == current.qty + signed_qty
        avg2       == IF side = "buy"
                      THEN Reduced(current.qty * current.avg_price.num
                                       + cost * current.avg_price.den,
                                   current.avg_price.den * new_qty)
                      ELSE current.avg_price
        positions2 ==
            IF new_qty = 0
            THEN [sym \in DOMAIN vp.positions \ {symbol} |-> vp.positions[sym]]
            ELSE [sym \in DOMAIN vp.positions \cup {symbol} |->
                     IF sym = symbol
                     THEN [qty |-> new_qty, avg_price |-> avg2]
                     ELSE vp.positions[sym]]
    IN  [vp EXCEPT !.cash = cash2,
                   !.positions = positions2,
                   !.history = Append(@, [symbol |-> symbol, side |-> side,
                                          qty |-> Abs(signed_qty), price |-> price,
                                          remaining_cash |-> cash2])]

\* VirtualPortfolio.update_from_fill
update_from_fill(vp, fill_event) ==
    LET symbol     == fill_event.symbol
        qty        == fill_event.qty
        price      == fill_event.price
        side       == Lower(fill_event.side)
        signed_qty == IF side = "buy" THEN qty ELSE -qty
        cost       == signed_qty * price
        cash2      == vp.cash - cost
        current    == IF symbol \in DOMAIN vp.positions
                      THEN vp.positions[symbol]
                      ELSE [qty |-> 0, avg_price |-> [num |-> 0, den |-> 1]]
        new_qty    == current.qty + signed_qty
        avg2       == IF side = "buy"
                      THEN Reduced(current.qty * current.avg_price.num
                                       + cost * current.avg_price.den,
                                   current.avg_price.den * new_qty)
                      ELSE current.avg_price
        positions2 ==
            IF new_qty = 0
            THEN [sym \in DOMAIN vp.positions \ {symbol} |-> vp.positions[sym]]
            ELSE [sym \in DOMAIN vp.positions \cup {symbol} |->
                     IF sym = symbol
                     THEN [qty |-> new_qty, avg_price |-> avg2]
                     ELSE vp.positions[sym]]
    IN  [vp EXCEPT !.cash = cash2,
                   !.positions = positions2,
                   !.history = Append(@, [symbol |-> symbol, side |-> side,
                                          qty |-> Abs(signed_qty), price |-> price,
                                          remaining_cash |-> cash2])]

PortfolioManagerInit == [portfolios |-> << >>, order_map |-> << >>]

\* PortfolioManager.create_portfolio
create_portfolio(mgr, portfolio_id) ==
    IF portfolio_id \in DOMAIN mgr.portfolios THEN mgr
    ELSE [mgr EXCEPT !.portfolios =
             [pid \in DOMAIN mgr.portfolios \cup {portfolio_id} |->
                 IF pid = portfolio_id
                 THEN VirtualPortfolio(portfolio_id, STARTING_CASH)
                 ELSE mgr.portfolios[pid]]]

\* VirtualPortfolio.get_market_value: a position without a live quote is
\* valued at its avg_price; the value is a reduced fraction of cents
get_market_value(vp, prices) ==
    LET RECURSIVE Value(_)
        Value(S) ==
            IF S = {} THEN [num |-> 0, den |-> 1]
            ELSE LET symbol == CHOOSE x \in S : TRUE
                     pos    == vp.positions[symbol]
                     price  == IF symbol \in DOMAIN prices
                               THEN [num |-> prices[symbol], den |-> 1]
                               ELSE pos.avg_price
                     rest   == Value(S \ {symbol})
                 IN  Reduced(pos.qty * price.num * rest.den + rest.num * price.den,
                             price.den * rest.den)
    IN  Value(DOMAIN vp.positions)

\* VirtualPortfolio.calculate_total_equity
calculate_total_equity(vp, prices) ==
    LET value == get_market_value(vp, prices)
    IN  Reduced(vp.cash * value.den + value.num, value.den)

\* PortfolioManager.get_all_portfolios: the summary of every portfolio, by
\* its id.  realized_pnl, wins and trades are read off the history entries;
\* model_name and pnl_pct, display fields derived from model_id and pnl,
\* are left out.
get_all_portfolios(mgr, prices) ==
    [p_id \in DOMAIN mgr.portfolios |->
        LET p == mgr.portfolios[p_id]
            RECURSIVE Realized(_)
            Realized(i) == IF i = 0 THEN 0
                           ELSE Get(p.history[i], "realized_pnl", 0) + Realized(i - 1)
            closed == {i \in 1..Len(p.history) : Get(p.history[i], "side", "") = "sell"}
            wins   == Cardinality({i \in closed : Get(p.history[i], "realized_pnl", 0) > 0})
            total_closed_trades == Cardinality(closed)
            equity == calculate_total_equity(p, prices)
        IN  [model_id       |-> p_id,
             cash           |-> p.cash,
             equity         |-> equity,
             pnl            |-> Reduced(equity.num - p.initial_cash * equity.den, equity.den),
             realized_pnl   |-> Realized(Len(p.history)),
             trades         |-> total_closed_trades,
             wins           |-> wins,
             win_rate       |-> IF total_closed_trades > 0
                                THEN Reduced(wins, total_closed_trades)
                                ELSE [num |-> 0, den |-> 1],
             open_positions |-> Cardinality(DOMAIN p.positions)]]

\* PortfolioManager.register_order
register_order(mgr, order_id, portfolio_id) ==
    [mgr EXCEPT !.order_map =
        [o \in DOMAIN mgr.order_map \cup {order_id} |->
            IF o = order_id THEN portfolio_id ELSE mgr.order_map[o]]]

\* variant: the fill is entered in every portfolio
on_execution_fill_broadcast(mgr, fill_event) ==
    LET order_id == Get(fill_event, "order_id", "")
        mapped   == Get(mgr.order_map, order_id, "")
        portfolio_id ==
            IF mapped # "" THEN mapped
            ELSE IF Get(fill_event, "strategy_id", "") # ""
            THEN fill_event["strategy_id"]
            ELSE Get(fill_event, "model_id", "")
    IN  IF portfolio_id # "" /\ portfolio_id \in DOMAIN mgr.portfolios
        THEN [mgr EXCEPT !.portfolios =
                 [pid \in DOMAIN mgr.portfolios |->
                     update_from_fill(mgr.portfolios[pid], fill_event)]]
        ELSE mgr

\* PortfolioManager.on_execution_fill; "" stands for a missing or empty key
on_execution_fill(mgr, fill_event) ==
    LET order_id == Get(fill_event, "order_id", "")
        mapped   == Get(mgr.order_map, order_id, "")
        portfolio_id ==
            IF mapped # "" THEN mapped
            ELSE IF Get(fill_event, "strategy_id", "") # ""
            THEN fill_event["strategy_id"]
            ELSE Get(fill_event, "model_id", "")
    IN  IF portfolio_id # "" /\ portfolio_id \in DOMAIN mgr.portfolios
        THEN [mgr EXCEPT !.portfolios[portfolio_id] = update_from_fill(@, fill_event)]
        ELSE mgr

(***************************************************************************)
(* Pre-trade validator and slippage (risk/validator.py,                    *)
(* simulation/slippage.py)                                                 *)
(***************************************************************************)
MAX_ORDER_VALUE == 5000000
MAX_POS_SIZE == 2500000
BASE_BPS == 5

validate(portfolio, symbol, signal_price, qty, side) ==
    IF qty <= 0 \/ signal_price <= 0 THEN FALSE
    ELSE LET estimated_cost == qty * signal_price IN
    IF side = "BUY" /\ portfolio.cash < estimated_cost THEN FALSE
    ELSE IF estimated_cost > MAX_ORDER_VALUE THEN FALSE
    ELSE IF side = "BUY"
    THEN LET existing_qty == IF symbol \in DOMAIN portfolio.positions
                             THEN portfolio.positions[symbol].qty ELSE 0
             new_val == existing_qty * signal_price + estimated_cost
         IN  ~(new_val > MAX_POS_SIZE)
    ELSE TRUE

\* round(p * s / 10^9) for a price p in cents and s >= 0 in units of 10^-9
PriceMove(p, s) ==
    (p * (s \div 1000) + 500000 + (p * (s % 1000)) \div 1000) \div 1000000

\* SlippageModel.calculate_price; noise is the value random.gauss returned,
\* in units of 10^-9
calculate_price(decision_price, side, qty, noise) ==
    IF decision_price <= 0 THEN decision_price
    ELSE LET slippage_pct == noise + 5 * qty + BASE_BPS * 100000 IN
         IF side = "BUY"
         THEN decision_price + PriceMove(decision_price, Abs(slippage_pct))
         ELSE decision_price - PriceMove(decision_price, Abs(slippage_pct))

\* round(x, 2) for an amount x in units of 10^-10 dollars: the cents
RoundCents(x) == (x + 50000000) \div 100000000

\* SlippageModel.calculate_price for a decision price that need not be a
\* whole number of cents: decision_price and the result in units of 10^-4
\* dollars, noise in units of 10^-9
calculate_price_e4(decision_price, side, qty, noise) ==
    IF decision_price <= 0 THEN decision_price
    ELSE LET slippage_pct == noise + 5 * qty + BASE_BPS * 100000
             s      == Abs(slippage_pct)
             \* decision_price * |slippage_pct|, in units of 10^-10 dollars
             move   == decision_price * (s \div 1000)
                           + (decision_price * (s % 1000)) \div 1000
             cents  == decision_price \div 100
             rest   == (decision_price % 100) * 1000000
         IN  IF side = "BUY"
             THEN (cents + RoundCents(rest + move)) * 100
             ELSE (cents + RoundCents(rest - move)) * 100

(***************************************************************************)
(* Paper execution (services/execution/main.py)                            *)
(***************************************************************************)
TRADE_AMOUNT == 1000000
MIN_CASH == 1000

NoFill == [filled |-> FALSE]
Filled(f) == [filled |-> TRUE, fill |-> f]

\* Python truthiness of a payload value: a missing key (or None), "" and 0
\* are falsy
TruthyStr(d, k) == k \in DOMAIN d /\ d[k] # ""
TruthyNum(d, k) == k \in DOMAIN d /\ d[k] # 0

\* simulate_fill: the value returned and the PortfolioManager afterwards.
\* current_price is 0 when the symbol has no cached price.
simulate_fill(signal, current_price, manager, noise) ==
    LET model_id == Get(signal, "model_id", "default_model")
        side     == IF TruthyStr(signal, "side") THEN Upper(signal["side"])
                    ELSE IF TruthyStr(signal, "signal") THEN Upper(signal["signal"])
                    ELSE ""
        symbol   == Get(signal, "symbol", "None")
        decision_price ==
            IF TruthyNum(signal, "price") THEN signal["price"] ELSE current_price
    IN
    IF decision_price <= 0 THEN [ret |-> NoFill, mgr |-> manager]
    ELSE
    LET mgr2      == create_portfolio(manager, model_id)
        portfolio == mgr2.portfolios[model_id]
        has_qty   == TruthyNum(signal, "qty")
        held      == IF symbol \in DOMAIN portfolio.positions
                     THEN portfolio.positions[symbol].qty ELSE 0
        rejected_early ==
            \/ side = "BUY" /\ portfolio.cash < MIN_CASH
            \/ side = "SELL" /\ held <= 0
        qty == IF side = "BUY"
               THEN IF has_qty THEN signal["qty"]
                    ELSE (IF portfolio.cash < TRADE_AMOUNT
                          THEN portfolio.cash ELSE TRADE_AMOUNT)
                             \div decision_price
               ELSE IF side = "SELL"
               THEN IF has_qty THEN signal["qty"] ELSE held
               ELSE 0
    IN
    IF rejected_early \/ qty <= 0 THEN [ret |-> NoFill, mgr |-> mgr2]
    ELSE IF ~validate(portfolio, symbol, decision_price, qty, side)
    THEN [ret |-> NoFill, mgr |-> mgr2]
    ELSE LET executed_price == calculate_price(decision_price, side, qty, noise)
         IN  [ret |-> Filled(
                 [model_id |-> model_id,
                  symbol   |-> symbol,
                  side     |-> side,
                  qty      |-> qty,
                  price    |-> executed_price,
                  status   |-> "FILLED",
                  mode     |-> "paper",
                  slippage |-> executed_price - decision_price]),
              mgr |-> mgr2]

(***************************************************************************)
(* Live connector (services/execution/alpaca_client.py)                    *)
(***************************************************************************)
MIN_CONFIDENCE_PCT == 60
ALPACA_RISK_PER_TRADE_PCT == 2
CIRCUIT_BREAKER_DRAWDOWN_BP == 300

ConnectorInit == [kill_switch_active |-> FALSE, manual_approval_mode |-> FALSE]

activate_kill_switch(c) == [c EXCEPT !.kill_switch_active = TRUE]

activate_manual_approval_mode(c) == [c EXCEPT !.manual_approval_mode = TRUE]

is_blocked(c) == c.kill_switch_active \/ c.manual_approval_mode

\* variant: the two directions exchanged
SignalMap_inverted(signal) ==
    CASE signal = "BUY" -> -1
      [] signal = "SELL" -> 1
      [] OTHER -> 0

SignalMap(signal) ==
    CASE signal = "BUY" -> 1
      [] signal = "SELL" -> -1
      [] OTHER -> 0

\* _calculate_qty; price in cents, confidence in percent, equity (what the
\* brokerage reports at that moment, 0 on failure) in dollars
calculate_qty(price, confidence, equity) ==
    IF price <= 0 \/ confidence <= 0 THEN 0
    ELSE IF equity <= 0 THEN 0
    ELSE LET qty == (equity * ALPACA_RISK_PER_TRADE_PCT * confidence)
                        \div (100 * price)
         IN  IF qty > 0 THEN qty ELSE 0

NoOrder == [submitted |-> FALSE, raised |-> FALSE]

deactivate_kill_switch(c) == [c EXCEPT !.kill_switch_active = FALSE]

deactivate_manual_approval_mode(c) == [c EXCEPT !.manual_approval_mode = FALSE]

\* variant: the manual-approval flag does not hold an order back
execute_signal_manual_not_gated(c, symbol, signal, confidence, model_id, price, equity, outcome) ==
    LET signal_int == SignalMap(Upper(signal)) IN
    IF c.kill_switch_active THEN NoOrder
    ELSE IF confidence < MIN_CONFIDENCE_PCT THEN NoOrder
    ELSE IF signal_int = 0 THEN NoOrder
    ELSE LET side == IF signal_int = 1 THEN "buy" ELSE "sell"
             qty  == calculate_qty(price, confidence, equity)
         IN  IF qty <= 0 THEN NoOrder
             ELSE [submitted |-> TRUE,
                   raised    |-> outcome = "error",
                   order     |-> [call |-> "submit_order", symbol |-> symbol,
                                  qty |-> qty, side |-> side],
                   result    |-> [model_id |-> model_id,
                                  symbol |-> symbol,
                                  side |-> side,
                                  qty |-> qty,
                                  confidence |-> confidence,
                                  price_at_signal |-> price,
                                  status |-> outcome,
                                  mode |-> "live"]]

\* execute_signal.  equity is the brokerage's answer to get_account, outcome
\* its answer to submit_order: "error" when the call raises, else the status
\* of the new order.  The result names the order handed to the brokerage and
\* the summary returned to the caller.
execute_signal(c, symbol, signal, confidence, model_id, price, equity, outcome) ==
    LET signal_int == SignalMap(Upper(signal)) IN
    IF c.kill_switch_active THEN NoOrder
    ELSE IF c.manual_approval_mode THEN NoOrder
    ELSE IF confidence < MIN_CONFIDENCE_PCT THEN NoOrder
    ELSE IF signal_int = 0 THEN NoOrder
    ELSE LET side == IF signal_int = 1 THEN "buy" ELSE "sell"
             qty  == calculate_qty(price, confidence, equity)
         IN  IF qty <= 0 THEN NoOrder
             ELSE [submitted |-> TRUE,
                   raised    |-> outcome = "error",
                   order     |-> [call |-> "submit_order", symbol |-> symbol,
                                  qty |-> qty, side |-> side],
                   result    |-> [model_id |-> model_id,
                                  symbol |-> symbol,
                                  side |-> side,
                                  qty |-> qty,
                                  confidence |-> confidence,
                                  price_at_signal |-> price,
                                  status |-> outcome,
                                  mode |-> "live"]]

CloseAllPositions == [call |-> "close_all_positions"]

(***************************************************************************)
(* The single-model ledger of services/execution/virtual_portfolio.py.     *)
(* Cash, prices and budgets in cents; avg_cost and realized_pnl are        *)
(* quotients of integers, kept as reduced fractions num/den.               *)
(***************************************************************************)
LEDGER_STARTING_CASH == 100000

RZero == [num |-> 0, den |-> 1]
RInt(n) == [num |-> n, den |-> 1]
RAdd(a, b) == Reduced(a.num * b.den + b.num * a.den, a.den * b.den)
RScale(a, k) == Reduced(a.num * k, a.den)

Position == [qty |-> 0, avg_cost |-> RZero]

VirtualPortfolioLedger(starting_cash) ==
    [starting_cash |-> starting_cash, cash |-> starting_cash,
     positions |-> << >>, trades |-> 0, closed_trades |-> 0, wins |-> 0,
     realized_pnl |-> RZero]

NoTradeFill == [filled |-> FALSE]

\* VirtualPortfolio.buy: the portfolio afterwards and the TradeFill returned
buy(vp, symbol, price, budget) ==
    IF price <= 0 \/ budget <= 0 THEN [vp |-> vp, fill |-> NoTradeFill]
    ELSE LET budget2 == IF budget < vp.cash THEN budget ELSE vp.cash
             qty     == budget2 \div price
             cost    == qty * price
         IN
    IF qty <= 0 THEN [vp |-> vp, fill |-> NoTradeFill]
    ELSE IF cost > vp.cash THEN [vp |-> vp, fill |-> NoTradeFill]
    ELSE LET position == IF symbol \in DOMAIN vp.positions
                         THEN vp.positions[symbol] ELSE Position
             new_qty  == position.qty + qty
             avg2     == IF new_qty > 0
                         THEN Reduced(position.avg_cost.num * position.qty
                                          + cost * position.avg_cost.den,
                                      position.avg_cost.den * new_qty)
                         ELSE position.avg_cost
         IN  [vp |-> [vp EXCEPT
                 !.positions = [sym \in DOMAIN vp.positions \cup {symbol} |->
                                   IF sym = symbol
                                   THEN [qty |-> new_qty, avg_cost |-> avg2]
                                   ELSE vp.positions[sym]],
                 !.cash = @ - cost,
                 !.trades = @ + 1],
              fill |-> [filled |-> TRUE, symbol |-> symbol, side |-> "BUY",
                        qty |-> qty, price |-> price, realized_pnl |-> RZero]]

\* variant: the proceeds of a sale are booked, its profit or loss is not
sell_pnl_not_booked(vp, symbol, price, qty) ==
    IF price <= 0 THEN [vp |-> vp, fill |-> NoTradeFill]
    ELSE IF symbol \notin DOMAIN vp.positions \/ vp.positions[symbol].qty <= 0
    THEN [vp |-> vp, fill |-> NoTradeFill]
    ELSE LET position == vp.positions[symbol]
             qty2     == IF qty.none THEN position.qty
                         ELSE IF qty.v > position.qty THEN position.qty
                         ELSE qty.v
         IN
    IF qty2 <= 0 THEN [vp |-> vp, fill |-> NoTradeFill]
    ELSE LET proceeds == qty2 * price
             \* (price - avg_cost) * qty
             realized_pnl == RScale(RAdd(RInt(price), RScale(position.avg_cost, -1)), qty2)
             left     == position.qty - qty2
             position2 == IF left <= 0 THEN Position
                          ELSE [position EXCEPT !.qty = left]
         IN  [vp |-> [vp EXCEPT
                 !.positions[symbol] = position2,
                 !.cash = @ + proceeds,
                 !.realized_pnl = @,
                 !.trades = @ + 1,
                 !.closed_trades = @ + 1,
                 !.wins = IF realized_pnl.num > 0 THEN @ + 1 ELSE @],
              fill |-> [filled |-> TRUE, symbol |-> symbol, side |-> "SELL",
                        qty |-> qty2, price |-> price,
                        realized_pnl |-> realized_pnl]]

\* VirtualPortfolio.sell; qty is None or Some(n)
sell(vp, symbol, price, qty) ==
    IF price <= 0 THEN [vp |-> vp, fill |-> NoTradeFill]
    ELSE IF symbol \notin DOMAIN vp.positions \/ vp.positions[symbol].qty <= 0
    THEN [vp |-> vp, fill |-> NoTradeFill]
    ELSE LET position == vp.positions[symbol]
             qty2     == IF qty.none THEN position.qty
                         ELSE IF qty.v > position.qty THEN position.qty
                         ELSE qty.v
         IN
    IF qty2 <= 0 THEN [vp |-> vp, fill |-> NoTradeFill]
    ELSE LET proceeds == qty2 * price
             \* (price - avg_cost) * qty
             realized_pnl == RScale(RAdd(RInt(price), RScale(position.avg_cost, -1)), qty2)
             left     == position.qty - qty2
             position2 == IF left <= 0 THEN Position
                          ELSE [position EXCEPT !.qty = left]
         IN  [vp |-> [vp EXCEPT
                 !.positions[symbol] = position2,
                 !.cash = @ + proceeds,
                 !.realized_pnl = RAdd(@, realized_pnl),
                 !.trades = @ + 1,
                 !.closed_trades = @ + 1,
                 !.wins = IF realized_pnl.num > 0 THEN @ + 1 ELSE @],
              fill |-> [filled |-> TRUE, symbol |-> symbol, side |-> "SELL",
                        qty |-> qty2, price |-> price,
                        realized_pnl |-> realized_pnl]]

(***************************************************************************)
(* Audit trail (services/execution/audit.py).  file is the JSONL log,      *)
(* events the records published on audit_events; a record is kept by its   *)
(* event_type.  disk_ok and bus_ok say whether the append to the file and  *)
(* the publish succeed.                                                    *)
(***************************************************************************)
TradeAuditLoggerInit == [file |-> << >>, events |-> << >>, redis_client |-> FALSE]

set_redis_client(a) == [a EXCEPT !.redis_client = TRUE]

\* _emit: _build_record, _write, _publish; both catch every exception
emit(a, event_type, disk_ok, bus_ok) ==
    [audit  |-> [a EXCEPT
                    !.file = IF disk_ok THEN Append(@, event_type) ELSE @,
                    !.events = IF a.redis_client /\ bus_ok
                               THEN Append(@, event_type) ELSE @],
     raised |-> FALSE]

log_signal(a, disk_ok, bus_ok) == emit(a, "SIGNAL", disk_ok, bus_ok)

log_order(a, disk_ok, bus_ok) == emit(a, "ORDER", disk_ok, bus_ok)

\* log_fill passes model_version and the keys of fill_event as keyword
\* arguments of _emit(event_type, **kwargs): a key given twice is a TypeError
\* raised by the call itself
log_fill(a, fill_event, disk_ok, bus_ok) ==
    IF "model_version" \in DOMAIN fill_event \/ "event_type" \in DOMAIN fill_event
    THEN [audit |-> a, raised |-> TRUE]
    ELSE emit(a, "FILL", disk_ok, bus_ok)

log_kill_switch(a, disk_ok, bus_ok) == emit(a, "KILL_SWITCH", disk_ok, bus_ok)

log_manual_approval_mode(a, disk_ok, bus_ok) ==
    emit(a, "MANUAL_APPROVAL_MODE", disk_ok, bus_ok)

(***************************************************************************)
(* Strategies of the signal service (services/signal/strategies).  Prices  *)
(* are in cents.  The periods are those of the configuration, scaled       *)
(* down; the RSI thresholds are the defaults.                              *)
(***************************************************************************)
FAST_PERIOD == 2
SLOW_PERIOD == 3
RSI_PERIOD == 3
WARMUP_PERIOD == 4
OVERSOLD == 30
OVERBOUGHT == 70

StrategyKinds == {"sma", "rsi", "tft", "lstm"}

\* the buffers are deque(maxlen = ...); current_position is None at first
StrategyInit(kind) == [kind |-> kind, prices |-> << >>, current_position |-> "NONE"]

\* deque.append with maxlen: the oldest element falls out
DequeAppend(q, x, maxlen) ==
    IF Len(q) >= maxlen THEN Append(Tail(q), x) ELSE Append(q, x)

\* list(q)[-n:]
LastN(q, n) ==
    IF n = 0 \/ n >= Len(q) THEN q ELSE SubSeq(q, Len(q) - n + 1, Len(q))

NoSignal(s) == [strategy |-> s, signal |-> "NONE", raised |-> FALSE]

Emit(s, signal, position) ==
    [strategy |-> [s EXCEPT !.current_position = position],
     signal |-> signal, raised |-> FALSE]

\* variant: a cross is signalled whatever the position
sma_on_tick_every_cross(s, tick) ==
    LET price == Get(tick, "price", 0)
        prices == DequeAppend(s.prices, price, SLOW_PERIOD + 1)
        t == [s EXCEPT !.prices = prices]
        fast == LastN(prices, FAST_PERIOD)
        slow == LastN(prices, SLOW_PERIOD)
    IN  IF price <= 0 THEN NoSignal(s)
        ELSE IF Len(prices) < SLOW_PERIOD THEN NoSignal(t)
        ELSE IF SumSeq(fast) * Len(slow) > SumSeq(slow) * Len(fast)
             THEN Emit(t, "BUY", "LONG")
        ELSE IF SumSeq(fast) * Len(slow) < SumSeq(slow) * Len(fast)
             THEN Emit(t, "SELL", "SHORT")
        ELSE NoSignal(t)

\* SMACrossover.on_tick; the two means are compared as fractions
sma_on_tick(s, tick) ==
    LET price == Get(tick, "price", 0)
        prices == DequeAppend(s.prices, price, SLOW_PERIOD + 1)
        t == [s EXCEPT !.prices = prices]
        fast == LastN(prices, FAST_PERIOD)
        slow == LastN(prices, SLOW_PERIOD)
    IN  IF price <= 0 THEN NoSignal(s)
        ELSE IF Len(prices) < SLOW_PERIOD THEN NoSignal(t)
        ELSE IF /\ SumSeq(fast) * Len(slow) > SumSeq(slow) * Len(fast)
                /\ s.current_position # "LONG"
             THEN Emit(t, "BUY", "LONG")
        ELSE IF /\ SumSeq(fast) * Len(slow) < SumSeq(slow) * Len(fast)
                /\ s.current_position # "SHORT"
             THEN Emit(t, "SELL", "SHORT")
        ELSE NoSignal(t)

\* sums of max(c, 0) and of max(-c, 0) over the changes between neighbours
RECURSIVE Gains(_)
Gains(prices) ==
    IF Len(prices) < 2 THEN 0
    ELSE LET c == prices[2] - prices[1]
         IN  (IF c > 0 THEN c ELSE 0) + Gains(Tail(prices))

RECURSIVE Losses(_)
Losses(prices) ==
    IF Len(prices) < 2 THEN 0
    ELSE LET c == prices[2] - prices[1]
         IN  (IF c < 0 THEN -c ELSE 0) + Losses(Tail(prices))

\* _compute_rsi: 100 - 100 / (1 + avg_gain / avg_loss) is the fraction
\* 100 * gains / (gains + losses)
compute_rsi(prices) ==
    IF Len(prices) < RSI_PERIOD + 1 THEN None
    ELSE IF Losses(prices) = 0 THEN Some(100)
    ELSE [none |-> FALSE, v |-> 100 * Gains(prices),
          den |-> Gains(prices) + Losses(prices)]

\* RSIMeanReversion.on_tick
rsi_on_tick(s, tick) ==
    LET price == Get(tick, "price", 0)
        prices == DequeAppend(s.prices, price, RSI_PERIOD + 1)
        t == [s EXCEPT !.prices = prices]
        rsi == compute_rsi(prices)
    IN  IF price <= 0 THEN NoSignal(s)
        ELSE IF rsi.none THEN NoSignal(t)
        ELSE IF rsi.v <= OVERSOLD * rsi.den /\ s.current_position # "LONG"
             THEN Emit(t, "BUY", "LONG")
        ELSE IF rsi.v >= OVERBOUGHT * rsi.den /\ s.current_position # "SHORT"
             THEN Emit(t, "SELL", "SHORT")
        ELSE NoSignal(t)

\* TFTStrategy.on_tick: tick["price"] without a price test; once the buffer
\* holds warmup_period prices it calls self.fe.calculate_features, which
\* FeatureEngineer does not define, and the AttributeError leaves on_tick
tft_on_tick(s, tick) ==
    LET prices == DequeAppend(s.prices, tick["price"], WARMUP_PERIOD)
        t == [s EXCEPT !.prices = prices]
    IN  IF Len(prices) < WARMUP_PERIOD THEN NoSignal(t)
        ELSE [strategy |-> t, signal |-> "NONE", raised |-> TRUE]

\* LSTMStrategy.on_tick: the same buffer, guard and call
lstm_on_tick(s, tick) ==
    LET prices == DequeAppend(s.prices, tick["price"], WARMUP_PERIOD)
        t == [s EXCEPT !.prices = prices]
    IN  IF Len(prices) < WARMUP_PERIOD THEN NoSignal(t)
        ELSE [strategy |-> t, signal |-> "NONE", raised |-> TRUE]

on_tick(s, tick) ==
    CASE s.kind = "sma" -> sma_on_tick(s, tick)
      [] s.kind = "rsi" -> rsi_on_tick(s, tick)
      [] s.kind = "tft" -> tft_on_tick(s, tick)
      [] s.kind = "lstm" -> lstm_on_tick(s, tick)

(***************************************************************************)
(* The Signal Engine's loop (services/signal/main.py): every cycle runs    *)
(* process_symbol once per symbol of the watchlist; the signals go out on  *)
(* trade_signals.                                                          *)
(***************************************************************************)
\* the first two symbols of the watchlist
WATCHLIST == {"SPY", "QQQ"}

\* model_id of SMACrossover and of RSIMeanReversion, in the order of
\* baseline_strategies
BASELINE_STRATEGIES == <<"sma_crossover", "rsi_mean_reversion">>

SignalEngineInit == [cycle |-> 0, done |-> {}, trade_signals |-> << >>]

\* process_symbol: what it publishes.  fetched: fetch_ohlcv gave 90 bars or
\* more; hybrid: what inference and _build_hybrid_signal come to ("none",
\* "BUY", "SELL", or "raise" for an exception on the way); outcomes[i]: what
\* generate_signal of the i-th baseline strategy does on these bars.
\* Everything runs in one try block and the signals are published after
\* the last strategy was asked: an exception anywhere ends the call.
process_symbol(symbol, fetched, hybrid, outcomes) ==
    LET payload(model_id, signal) ==
            [symbol |-> symbol, signal |-> signal, model_id |-> model_id]
        RECURSIVE Baseline(_)
        Baseline(i) ==
            IF i > Len(BASELINE_STRATEGIES) THEN << >>
            ELSE (IF outcomes[i] = "none" THEN << >>
                  ELSE <<payload(BASELINE_STRATEGIES[i], outcomes[i])>>)
                 \o Baseline(i + 1)
        signals_to_publish ==
            (IF hybrid = "none" THEN << >> ELSE <<payload("hybrid_ai", hybrid)>>)
                \o Baseline(1)
    IN  IF ~fetched THEN [raised |-> FALSE, published |-> << >>]
        ELSE IF hybrid = "raise" \/ \E i \in DOMAIN outcomes : outcomes[i] = "raise"
        THEN [raised |-> TRUE, published |-> << >>]
        ELSE [raised |-> FALSE, published |-> signals_to_publish]

(***************************************************************************)
(* The paper loop's leaderboard (services/execution/main.py): its clock    *)
(* now = loop.time(), a monotonic clock in seconds, its local              *)
(* last_publish_at, and the messages published on paper_portfolio_updates. *)
(***************************************************************************)
\* PAPER_PORTFOLIO_PUBLISH_SECONDS
PUBLISH_INTERVAL == 2

LeaderboardInit ==
    [now |-> 0, last_publish_at |-> 0, paper_portfolio_updates |-> << >>]

\* portfolios.sort(key=lambda x: x['equity'], reverse=True) on the list
\* of summaries; entries of equal equity are taken in an arbitrary order
RECURSIVE SortByEquity(_)
SortByEquity(entries) ==
    IF DOMAIN entries = {} THEN << >>
    ELSE LET first == CHOOSE a \in DOMAIN entries :
                          \A b \in DOMAIN entries :
                              entries[a].equity.num * entries[b].equity.den
                                  >= entries[b].equity.num * entries[a].equity.den
         IN  <<entries[first]>>
                 \o SortByEquity([k \in DOMAIN entries \ {first} |-> entries[k]])

\* publish_portfolios: the message it publishes, or the KeyError of
\* portfolios[0]["id"] when the first summary has no such key
publish_portfolios(mgr, prices) ==
    LET portfolios == SortByEquity(get_all_portfolios(mgr, prices)) IN
    IF portfolios # << >> /\ "id" \notin DOMAIN portfolios[1]
    THEN [raised |-> TRUE, payload |-> << >>]
    ELSE [raised  |-> FALSE,
          payload |-> [best_model |-> IF portfolios # << >>
                                      THEN Some(portfolios[1]["id"]) ELSE None,
                       models     |-> portfolios,
                       mode       |-> "paper"]]

(***************************************************************************)
(* The paper loop's coroutine, step by step (services/execution/main.py).  *)
(* simulate_fill suspends once, at await latency_sim.delay(); pc says      *)
(* whether the coroutine is at pubsub.listen() or suspended there, and     *)
(* signal, current_price and order are the locals it holds meanwhile.      *)
(***************************************************************************)
PaperLoopInit ==
    [pc |-> "listen", signal |-> << >>, current_price |-> 0, order |-> << >>]

\* variant: every request is handled by a task of its own
LoopFree_task_per_request(l) == TRUE

\* the loop awaits simulate_fill inside async for: it takes the next message
\* only once the handling of the last one has returned
LoopFree(l) == l.pc = "listen"

\* simulate_fill down to the risk check, before the latency wait
simulate_fill_until_latency(signal, current_price, manager) ==
    LET model_id == Get(signal, "model_id", "default_model")
        side     == IF TruthyStr(signal, "side") THEN Upper(signal["side"])
                    ELSE IF TruthyStr(signal, "signal") THEN Upper(signal["signal"])
                    ELSE ""
        symbol   == Get(signal, "symbol", "None")
        decision_price ==
            IF TruthyNum(signal, "price") THEN signal["price"] ELSE current_price
    IN
    IF decision_price <= 0 THEN [proceed |-> FALSE, mgr |-> manager, order |-> << >>]
    ELSE
    LET mgr2      == create_portfolio(manager, model_id)
        portfolio == mgr2.portfolios[model_id]
        has_qty   == TruthyNum(signal, "qty")
        held      == IF symbol \in DOMAIN portfolio.positions
                     THEN portfolio.positions[symbol].qty ELSE 0
        rejected_early ==
            \/ side = "BUY" /\ portfolio.cash < MIN_CASH
            \/ side = "SELL" /\ held <= 0
        qty == IF side = "BUY"
               THEN IF has_qty THEN signal["qty"]
                    ELSE (IF portfolio.cash < TRADE_AMOUNT
                          THEN portfolio.cash ELSE TRADE_AMOUNT)
                             \div decision_price
               ELSE IF side = "SELL"
               THEN IF has_qty THEN signal["qty"] ELSE held
               ELSE 0
    IN
    IF rejected_early \/ qty <= 0 \/ ~validate(portfolio, symbol, decision_price, qty, side)
    THEN [proceed |-> FALSE, mgr |-> mgr2, order |-> << >>]
    ELSE [proceed |-> TRUE, mgr |-> mgr2,
          order |-> [model_id |-> model_id, symbol |-> symbol, side |-> side,
                     qty |-> qty, decision_price |-> decision_price]]

\* simulate_fill after the latency wait: the slippage, and the fill event
simulate_fill_after_latency(order, noise) ==
    LET executed_price ==
            calculate_price(order.decision_price, order.side, order.qty, noise)
    IN  [model_id |-> order.model_id,
         symbol   |-> order.symbol,
         side     |-> order.side,
         qty      |-> order.qty,
         price    |-> executed_price,
         status   |-> "FILLED",
         mode     |-> "paper",
         slippage |-> executed_price - order.decision_price]

(***************************************************************************)
(* State                                                                   *)
(***************************************************************************)
VARIABLES
    engine,              \* the RiskEngine object
    signals_processed,   \* the Risk loop's counter of forwarded signals
    execution_requests,  \* messages published on execution_requests, in order
    risk_commands,       \* messages published on risk_commands, in order
    manager,             \* the paper PortfolioManager
    current_prices,      \* the Execution Engine's price cache, symbol -> cents
    execution_filled,    \* messages published on execution_filled, in order
    exec_msg,            \* the execution request the Execution Engine took last
    mode,                \* EXECUTION_MODE: "paper" or "live"
    ledger,              \* a VirtualPortfolio of virtual_portfolio.py
    audit,               \* a TradeAuditLogger, its file and its channel
    strategy,            \* one strategy instance of the signal service
    tick_log,            \* inputs it was given, its last two emitted signals
    paper_loop,          \* where the paper loop's coroutine stands, and its locals
    leaderboard,         \* the paper loop's clock, last_publish_at, and the leaderboard topic
    signal_engine,       \* the Signal Engine's cycle and the trade_signals topic
    args,                \* the arguments of the operation performed last
    connector,           \* the TitanAlpacaConnector's control flags
    broker,              \* calls made on the brokerage, in order
    cursors,             \* how many messages of each topic were delivered
    op,                  \* the operation or handler performed last
    ret                  \* what it returned

\* the Execution Engine's own state
signalVars == <<strategy, tick_log, paper_loop, leaderboard, signal_engine>>
execState == <<manager, current_prices, execution_filled, exec_msg, mode,
               connector, broker>>
riskVars == <<signals_processed, execution_requests, risk_commands>>
execVars == <<manager, current_prices, execution_filled, exec_msg, mode, ledger, audit, signalVars, args,
              connector, broker>>
vars == <<engine, signals_processed, execution_requests, risk_commands,
          manager, current_prices, execution_filled, exec_msg, mode, ledger, audit, signalVars, args,
          connector, broker, cursors, op, ret>>

RetBool(b) == [b |-> b, n |-> 0]
RetInt(n) == [b |-> FALSE, n |-> n]
RetNone == [b |-> FALSE, n |-> 0]

InitStrategy(kind) ==
    /\ strategy = StrategyInit(kind)
    /\ tick_log = [inputs |-> 0, emitted |-> "NONE", before |-> "NONE"]

InitCore(m) ==
    /\ paper_loop = PaperLoopInit
    /\ leaderboard = LeaderboardInit
    /\ signal_engine = SignalEngineInit
    /\ engine = RiskEngineInit
    /\ signals_processed = 0
    /\ execution_requests = << >>
    /\ risk_commands = << >>
    /\ manager = PortfolioManagerInit
    /\ current_prices = << >>
    /\ execution_filled = << >>
    /\ exec_msg = << >>
    /\ mode = m
    /\ ledger = VirtualPortfolioLedger(LEDGER_STARTING_CASH)
    /\ audit = TradeAuditLoggerInit
    /\ args = << >>
    /\ connector = ConnectorInit
    /\ broker = << >>
    /\ cursors = [requests |-> 0, commands |-> 0, fills |-> 0]
    /\ op = "init"
    /\ ret = RetNone

InitMode(m) == InitCore(m) /\ InitStrategy("sma")

Init == InitMode("paper")

(***************************************************************************)
(* The RiskEngine's public operations, called in any order                 *)
(***************************************************************************)
UpdateAccountState ==
    \E equity \in Equities, daily_pnl \in DailyPnls :
        /\ engine' = update_account_state(engine, equity, daily_pnl)
        /\ op' = "update_account_state" /\ UNCHANGED <<riskVars, execVars, cursors>>
        /\ ret' = RetNone

CheckKillSwitch ==
    /\ engine' = check_kill_switch(engine).eng
    /\ op' = "check_kill_switch" /\ UNCHANGED <<riskVars, execVars, cursors>>
    /\ ret' = RetBool(check_kill_switch(engine).ret)

RecordTradeResult ==
    \E pnl \in Returns :
        /\ engine.consecutive_losses < MaxLosses
        /\ engine' = record_trade_result(engine, pnl)
        /\ op' = "record_trade_result" /\ UNCHANGED <<riskVars, execVars, cursors>>
        /\ ret' = RetNone

EntryPrices == {10000}
StopPrices == {9800, 10000}

CalculatePositionSize ==
    \E entry_price \in EntryPrices, stop_loss \in StopPrices :
        /\ UNCHANGED engine
        /\ op' = "calculate_position_size" /\ UNCHANGED <<riskVars, execVars, cursors>>
        /\ ret' = RetInt(calculate_position_size(engine, entry_price, stop_loss))

ValidateSignal ==
    /\ UNCHANGED engine
    /\ op' = "validate_signal" /\ UNCHANGED <<riskVars, execVars, cursors>>
    /\ ret' = RetBool(validate_signal(engine))

RecordPrediction ==
    \E p \in Predictions :
        /\ Len(engine.recent_predictions) < MaxSamples
        /\ engine' = record_prediction(engine, p[1], p[2])
        /\ op' = "record_prediction" /\ UNCHANGED <<riskVars, execVars, cursors>>
        /\ ret' = RetNone

CheckModelPerformance ==
    /\ engine' = check_model_performance(engine).eng
    /\ op' = "check_model_performance" /\ UNCHANGED <<riskVars, execVars, cursors>>
    /\ ret' = RetBool(check_model_performance(engine).ret)

ResetManualApprovalMode ==
    /\ engine' = reset_manual_approval_mode(engine)
    /\ op' = "reset_manual_approval_mode" /\ UNCHANGED <<riskVars, execVars, cursors>>
    /\ ret' = RetNone

ResetKillSwitch ==
    /\ engine' = reset_kill_switch(engine)
    /\ op' = "reset_kill_switch" /\ UNCHANGED <<riskVars, execVars, cursors>>
    /\ ret' = RetNone

NextEngine ==
    \/ UpdateAccountState
    \/ CheckKillSwitch
    \/ RecordTradeResult
    \/ CalculatePositionSize
    \/ ValidateSignal
    \/ RecordPrediction
    \/ CheckModelPerformance
    \/ ResetManualApprovalMode
    \/ ResetKillSwitch

SpecEngine == Init /\ [][NextEngine]_vars

(***************************************************************************)
(* The Risk Governor service: its message loop, driven by the bus, and the *)
(* engine operations of its host (account poll, manual-approval reset).   *)
(* The loop in services/risk/main.py calls neither update_account_state    *)
(* nor a reset: until an account poll reaches the engine, starting_equity  *)
(* and current_equity are 0 as the constructor leaves them.                *)
(***************************************************************************)
SignalKeys == {"model_id", "symbol", "signal", "price", "confidence"}

Signal(model_id, symbol, signal, price, confidence) ==
    [model_id |-> model_id, symbol |-> symbol, signal |-> signal,
     price |-> price, confidence |-> confidence]

\* well-formed signals, a non-positive price, and signals with a key missing
TradeSignals ==
    {Signal("m1", "SPY", sig, 10000, 80) : sig \in {"BUY", "SELL", "HOLD"}}
    \cup {Signal("m1", "SPY", "BUY", 0, 80)}
    \cup {Restrict(Signal("m1", "SPY", "BUY", 10000, 80), SignalKeys \ {k}) :
              k \in {"model_id", "symbol", "signal", "price"}}

\* the account state the host's poll reports: (equity, daily_pnl)
AccountPolls == {<<100000, 0>>, <<97000, -3000>>}

\* execution_filled payloads as the Risk loop reads them
FillSamples ==
    {[price |-> 10000, slippage |-> 100, side |-> "BUY"],
     [price |-> 10000, slippage |-> 0, side |-> "BUY"],
     [price |-> 0, slippage |-> 0, side |-> "SELL"]}

\* what the trade_signals branch does to the Risk Governor's own state
RiskTradeSignalUpTo(data, max_requests, max_commands) ==
    \E h \in {HandleTradeSignal(engine, signals_processed, data)} :
    /\ Len(execution_requests) + Len(h.requests) <= max_requests
    /\ Len(risk_commands) + Len(h.commands) <= max_commands
    /\ engine' = h.eng
    /\ signals_processed' = h.sp
    /\ execution_requests' = execution_requests \o h.requests
    /\ risk_commands' = risk_commands \o h.commands
    /\ op' = "trade_signal"
    /\ ret' = RetBool(validate_signal(engine))

RiskTradeSignal(data) == RiskTradeSignalUpTo(data, MaxRequests, MaxCommands)

RiskOnTradeSignal(data) == RiskTradeSignal(data) /\ UNCHANGED execVars

RiskOnExecutionFilled(data) ==
    /\ Len(engine.recent_predictions) < MaxSamples
    /\ engine' = HandleExecutionFilled(engine, data)
    /\ UNCHANGED <<riskVars, execVars>>
    /\ op' = "execution_filled"
    /\ ret' = RetNone

TradeSignalArrives ==
    \E data \in TradeSignals : RiskOnTradeSignal(data) /\ UNCHANGED cursors

FillArrives ==
    \E data \in FillSamples : RiskOnExecutionFilled(data) /\ UNCHANGED cursors

AccountPoll ==
    \E a \in AccountPolls :
        /\ engine' = update_account_state(engine, a[1], a[2])
        /\ UNCHANGED <<riskVars, execVars, cursors>>
        /\ op' = "update_account_state"
        /\ ret' = RetNone

NextRisk ==
    \/ TradeSignalArrives
    \/ FillArrives
    \/ AccountPoll
    \/ ResetManualApprovalMode

SpecRisk == Init /\ [][NextRisk]_vars

(***************************************************************************)
(* The RiskEngine's account, kill-switch and sizing operations and the     *)
(* trade_signals branch of the loop, over a wider range of account states, *)
(* with the arguments of each call on record                               *)
(***************************************************************************)
\* (equity, daily_pnl) in dollars: nothing reported yet, a flat day, a loss
\* inside the limit, the limit exactly
AccountUpdates ==
    {<<0, 0>>, <<100000, 0>>, <<99000, -1000>>, <<97000, -3000>>}

SizingSignals ==
    {Signal("m1", "SPY", "BUY", 10000, 80),
     Signal("m1", "SPY", "SELL", 10000, 80),
     Signal("m1", "SPY", "BUY", 0, 80)}

AccountUpdateAccountState ==
    \E a \in AccountUpdates :
        /\ engine' = update_account_state(engine, a[1], a[2])
        /\ args' = a
        /\ op' = "update_account_state"
        /\ ret' = RetNone
        /\ UNCHANGED <<riskVars, execState, ledger, audit, signalVars, cursors>>

AccountCheckKillSwitch ==
    /\ engine' = check_kill_switch(engine).eng
    /\ args' = << >>
    /\ op' = "check_kill_switch"
    /\ ret' = RetBool(check_kill_switch(engine).ret)
    /\ UNCHANGED <<riskVars, execState, ledger, audit, signalVars, cursors>>

AccountCalculatePositionSize ==
    \E entry_price \in EntryPrices, stop_loss \in StopPrices :
        /\ UNCHANGED engine
        /\ args' = <<entry_price, stop_loss>>
        /\ op' = "calculate_position_size"
        /\ ret' = RetInt(calculate_position_size(engine, entry_price, stop_loss))
        /\ UNCHANGED <<riskVars, execState, ledger, audit, signalVars, cursors>>

AccountResetKillSwitch ==
    /\ engine' = reset_kill_switch(engine)
    /\ args' = << >>
    /\ op' = "reset_kill_switch"
    /\ ret' = RetNone
    /\ UNCHANGED <<riskVars, execState, ledger, audit, signalVars, cursors>>

AccountTradeSignal ==
    \E data \in SizingSignals :
        /\ RiskTradeSignal(data)
        /\ args' = data
        /\ UNCHANGED <<execState, ledger, audit, signalVars, cursors>>

NextAccount ==
    \/ AccountUpdateAccountState
    \/ AccountCheckKillSwitch
    \/ AccountCalculatePositionSize
    \/ AccountResetKillSwitch
    \/ AccountTradeSignal

SpecAccount == Init /\ [][NextAccount]_vars

(***************************************************************************)
(* The PortfolioManager on its own: portfolios created, orders registered  *)
(* and fills entered in any order                                          *)
(***************************************************************************)
PortfolioIds == {"m1", "m2"}
OrderIds == {"o1"}

\* the keys a fill can be routed by
RoutingKeys ==
    {[order_id |-> "o1"],
     [order_id |-> "o1", model_id |-> "m2"],
     [strategy_id |-> "m2", model_id |-> "m1"],
     [model_id |-> "m1"],
     [model_id |-> "m2"]}

\* what was traded: prices in cents
Trades ==
    {[symbol |-> "SPY", side |-> side, qty |-> qty, price |-> price] :
         side \in {"buy", "sell"}, qty \in {4, 10}, price \in {9000, 11000}}
    \cup {[symbol |-> "QQQ", side |-> "buy", qty |-> 10, price |-> 9000]}

FillEvent(keys, trade) ==
    [k \in DOMAIN keys \cup DOMAIN trade |->
        IF k \in DOMAIN keys THEN keys[k] ELSE trade[k]]

\* the fills entered so far, over all portfolios
FillsEntered(mgr) ==
    LET RECURSIVE Sum(_)
        Sum(S) == IF S = {} THEN 0
                  ELSE LET pid == CHOOSE x \in S : TRUE
                       IN  Len(mgr.portfolios[pid].history) + Sum(S \ {pid})
    IN  Sum(DOMAIN mgr.portfolios)

LedgerCreatePortfolio ==
    \E portfolio_id \in PortfolioIds :
        /\ manager' = create_portfolio(manager, portfolio_id)
        /\ args' = <<portfolio_id>>
        /\ op' = "create_portfolio"
        /\ ret' = RetNone
        /\ UNCHANGED <<engine, riskVars, current_prices, execution_filled,
                       exec_msg, mode, connector, broker, ledger, audit, signalVars, cursors>>

LedgerRegisterOrder ==
    \E order_id \in OrderIds, portfolio_id \in PortfolioIds :
        /\ manager' = register_order(manager, order_id, portfolio_id)
        /\ args' = <<order_id, portfolio_id>>
        /\ op' = "register_order"
        /\ ret' = RetNone
        /\ UNCHANGED <<engine, riskVars, current_prices, execution_filled,
                       exec_msg, mode, connector, broker, ledger, audit, signalVars, cursors>>

LedgerOnExecutionFill ==
    \E keys \in RoutingKeys, trade \in Trades :
        /\ FillsEntered(manager) < MaxFills
        /\ manager' = on_execution_fill(manager, FillEvent(keys, trade))
        /\ args' = FillEvent(keys, trade)
        /\ op' = "on_execution_fill"
        /\ ret' = RetNone
        /\ UNCHANGED <<engine, riskVars, current_prices, execution_filled,
                       exec_msg, mode, connector, broker, ledger, audit, signalVars, cursors>>

NextLedger ==
    \/ LedgerCreatePortfolio
    \/ LedgerRegisterOrder
    \/ LedgerOnExecutionFill

SpecLedger == Init /\ [][NextLedger]_vars

(***************************************************************************)
(* The Execution Engine in paper mode, fed by the bus                      *)
(***************************************************************************)
Request(model_id, symbol, qty, side) ==
    [model_id |-> model_id, symbol |-> symbol, qty |-> qty, side |-> side,
     type |-> "market", confidence |-> 80]

\* what may arrive on execution_requests: requests as the Risk Governor
\* builds them, and payloads of other shapes
RequestSamples ==
    {Request("m1", "SPY", 50, side) : side \in {"buy", "sell", "hold"}}
    \cup {Request("m1", "SPY", 0, "buy"), Request("m1", "SPY", 300, "buy")}
    \cup {Signal("m1", "SPY", "BUY", 10000, 80)}
    \cup {[model_id |-> "m1", symbol |-> "SPY", side |-> "BUY", price |-> 10000],
          [model_id |-> "m1", symbol |-> "SPY", qty |-> 10, signal |-> "BUY"],
          [model_id |-> "m1", symbol |-> "SPY", qty |-> 5, confidence |-> 90],
          [symbol |-> "SPY", qty |-> 50, side |-> "sell"]}

MarketData ==
    {[type |-> "trade", symbol |-> "SPY", price |-> 10000],
     [type |-> "quote", symbol |-> "SPY", price |-> 10000]}

\* values of the Gaussian noise term, in units of 10^-9
Noises == {-500000, 0}

\* the market_data branch on everything but the leaderboard, which it
\* leaves as it is (PaperOnMarketDataAt has the branch in full)
PaperOnMarketData(payload) ==
    /\ mode = "paper"
    /\ current_prices' =
           IF Get(payload, "type", "") = "trade"
           THEN [sym \in DOMAIN current_prices \cup {payload["symbol"]} |->
                    IF sym = payload["symbol"] THEN payload["price"]
                    ELSE current_prices[sym]]
           ELSE current_prices
    /\ UNCHANGED <<engine, riskVars, manager, execution_filled, exec_msg, mode, ledger, audit, signalVars, args,
                   connector, broker>>
    /\ op' = "paper_market_data"
    /\ ret' = RetNone

\* the execution_requests branch of the paper loop; max_fills bounds the
\* fills published
PaperHandleRequest(payload, noise, max_fills) ==
    /\ mode = "paper"
    /\ \E r \in {simulate_fill(payload, Get(current_prices, Get(payload, "symbol", "None"), 0),
                            manager, noise)} :
        /\ Len(execution_filled) + (IF r.ret.filled THEN 1 ELSE 0) <= max_fills
        /\ manager' = IF r.ret.filled
                      THEN on_execution_fill(r.mgr, r.ret.fill)
                      ELSE r.mgr
        /\ execution_filled' = IF r.ret.filled
                               THEN Append(execution_filled, r.ret.fill)
                               ELSE execution_filled
        /\ exec_msg' = payload
        /\ UNCHANGED <<engine, riskVars, current_prices, mode, ledger, audit, signalVars, args, connector, broker>>
        /\ op' = "paper_execution_request"
        /\ ret' = RetBool(r.ret.filled)

PaperOnExecutionRequest(payload, noise) ==
    PaperHandleRequest(payload, noise, MaxFills)

\* the risk_commands branch but for the record of the command: both commands
\* are logged, and nothing the loop owns is changed
PaperRiskCommand(payload) ==
    /\ mode = "paper"
    /\ UNCHANGED <<engine, riskVars, manager, current_prices, execution_filled,
                   exec_msg, mode, ledger, audit, signalVars, connector, broker>>
    /\ op' = "paper_risk_command"
    /\ ret' = RetNone

PaperOnRiskCommand(payload) == PaperRiskCommand(payload) /\ UNCHANGED args

CommandSamples ==
    {LiquidateAll("kill_switch_active"), ActivateManualApproval(None, None)}

PaperMarketData ==
    \E payload \in MarketData : PaperOnMarketData(payload) /\ UNCHANGED cursors

PaperRequestArrives ==
    \E payload \in RequestSamples, noise \in Noises :
        PaperOnExecutionRequest(payload, noise) /\ UNCHANGED cursors

PaperCommandArrives ==
    \E payload \in CommandSamples : PaperOnRiskCommand(payload) /\ UNCHANGED cursors

NextPaper ==
    \/ PaperMarketData
    \/ PaperRequestArrives
    \/ PaperCommandArrives

SpecPaper == Init /\ [][NextPaper]_vars

(***************************************************************************)
(* The paper loop fed with buy orders that carry their decision price,     *)
(* enough of them to spend a portfolio's cash                              *)
(***************************************************************************)
MaxBuys == 4

\* 250 shares of one of four symbols, at $100.00 or at $99.84
BuySamples ==
    {[model_id |-> "m1", symbol |-> symbol, qty |-> 250, side |-> "buy",
      type |-> "market", confidence |-> 80, price |-> 10000] :
         symbol \in {"SPY", "QQQ", "IWM"}}
    \cup {[model_id |-> "m1", symbol |-> "DIA", qty |-> 250, side |-> "buy",
           type |-> "market", confidence |-> 80, price |-> price] :
              price \in {10000, 9984}}

PaperBuyArrives ==
    \E payload \in BuySamples, noise \in Noises :
        PaperHandleRequest(payload, noise, MaxBuys) /\ UNCHANGED cursors

NextPaperCash == PaperBuyArrives

SpecPaperCash == Init /\ [][NextPaperCash]_vars

(***************************************************************************)
(* OrderValidator.validate called on the portfolios the paper loop builds  *)
(***************************************************************************)
\* (qty, signal_price) of the orders put to the validator: shares, cents
Orders ==
    {<<0, 10000>>, <<100, 0>>, <<100, 10000>>, <<260, 10000>>, <<501, 10000>>}

ValidateOrder ==
    \E pid \in DOMAIN manager.portfolios, order \in Orders, side \in {"BUY", "SELL"} :
        /\ args' = <<manager.portfolios[pid], "SPY", order[2], order[1], side>>
        /\ op' = "validate"
        /\ ret' = RetBool(validate(manager.portfolios[pid], "SPY",
                                   order[2], order[1], side))
        /\ UNCHANGED <<engine, riskVars, execState, ledger, audit, signalVars, cursors>>

NextValidator ==
    \/ PaperMarketData
    \/ PaperRequestArrives
    \/ ValidateOrder

SpecValidator == Init /\ [][NextValidator]_vars

(***************************************************************************)
(* SlippageModel.calculate_price on its own                                *)
(***************************************************************************)
\* units of 10^-4 dollars: -$50, 0, $0.004, $1.004, $1.006, $100, $100.004
DecisionPrices == {-500000, 0, 40, 10040, 10060, 1000000, 1000040}
SlippageQtys == {10, 100, 10000}
\* values of random.gauss(0, 0.0001) in units of 10^-9: -5, 0 and +3 sigma
GaussNoises == {-500000, 0, 300000}

CalculatePrice ==
    \E decision_price \in DecisionPrices, side \in {"BUY", "SELL"},
       qty \in SlippageQtys, noise \in GaussNoises :
        /\ args' = <<decision_price, side, qty, noise>>
        /\ op' = "calculate_price"
        /\ ret' = RetInt(calculate_price_e4(decision_price, side, qty, noise))
        /\ UNCHANGED <<engine, riskVars, execState, ledger, audit, signalVars, cursors>>

NextSlippage == CalculatePrice

SpecSlippage == Init /\ [][NextSlippage]_vars

(***************************************************************************)
(* One VirtualPortfolio of virtual_portfolio.py, bought into and sold from *)
(* in any order                                                            *)
(***************************************************************************)
MaxTrades == 3

LedgerSymbols == {"SPY", "QQQ"}
\* cents
LedgerPrices == {900, 1000, 1200}
\* cents: nothing, a part of the cash, more than the cash
Budgets == {0, 7000, 200000}
\* all of the position (qty=None), none, some, more than can be held
SellQtys == {None, Some(0), Some(3), Some(500)}

LegacyBuy ==
    \E symbol \in LedgerSymbols, price \in LedgerPrices, budget \in Budgets :
        /\ ledger.trades < MaxTrades
        /\ ledger' = buy(ledger, symbol, price, budget).vp
        /\ args' = <<symbol, price, budget>>
        /\ op' = "buy"
        /\ ret' = RetBool(buy(ledger, symbol, price, budget).fill.filled)
        /\ UNCHANGED <<engine, riskVars, execState, audit, signalVars, cursors>>

LegacySell ==
    \E symbol \in LedgerSymbols, price \in LedgerPrices, qty \in SellQtys :
        /\ ledger.trades < MaxTrades
        /\ ledger' = sell(ledger, symbol, price, qty).vp
        /\ args' = <<symbol, price, qty>>
        /\ op' = "sell"
        /\ ret' = RetBool(sell(ledger, symbol, price, qty).fill.filled)
        /\ UNCHANGED <<engine, riskVars, execState, audit, signalVars, cursors>>

NextLegacy == LegacyBuy \/ LegacySell

SpecLegacy == Init /\ [][NextLegacy]_vars

(***************************************************************************)
(* The Execution Engine in live mode (run_live_execution)                  *)
(***************************************************************************)
\* the equity snapshot taken at start-up; live mode aborts unless it is > 0
LIVE_STARTING_EQUITY == 100000

\* answers of the brokerage to get_account ({} when the call fails)
AccountSamples ==
    {[ok |-> FALSE, equity |-> 0, unrealized_pl |-> 0],
     [ok |-> TRUE, equity |-> 100000, unrealized_pl |-> 0],
     [ok |-> TRUE, equity |-> 96000, unrealized_pl |-> -4000]}

\* answers of the brokerage to submit_order: the status of the accepted
\* order as str(order.status) renders it, or an exception
SubmitOutcomes == {"accepted", "filled", "error"}

\* poll_due: whether ACCOUNT_POLL_SECONDS have passed since the last poll
LiveOnMarketData(payload, poll_due, acct) ==
    LET trip == /\ poll_due
                /\ acct.ok
                /\ acct.unrealized_pl * 10000
                       <= -(CIRCUIT_BREAKER_DRAWDOWN_BP * LIVE_STARTING_EQUITY)
                /\ ~is_blocked(connector)
    IN
    /\ mode = "live"
    /\ current_prices' =
           IF Get(payload, "type", "") = "trade"
           THEN [sym \in DOMAIN current_prices \cup {payload["symbol"]} |->
                    IF sym = payload["symbol"] THEN payload["price"]
                    ELSE current_prices[sym]]
           ELSE current_prices
    /\ connector' = IF trip THEN activate_kill_switch(connector) ELSE connector
    /\ broker' = IF trip THEN Append(broker, CloseAllPositions) ELSE broker
    /\ UNCHANGED <<engine, riskVars, manager, execution_filled, exec_msg, mode, ledger, audit, signalVars, args>>
    /\ op' = "live_market_data"
    /\ ret' = RetBool(trip)

LiveOnExecutionRequest(payload, equity, outcome) ==
    LET model_id   == Get(payload, "model_id", "unknown")
        symbol     == Get(payload, "symbol", "")
        signal_str == IF TruthyStr(payload, "side") THEN Upper(payload["side"])
                      ELSE IF TruthyStr(payload, "signal") THEN Upper(payload["signal"])
                      ELSE "HOLD"
        confidence == Get(payload, "confidence", 0)
        price      == Get(current_prices, symbol, Get(payload, "price", 0))
        r == execute_signal(connector, symbol, signal_str, confidence, model_id,
                            price, equity, outcome)
        published == r.submitted /\ ~r.raised
    IN
    /\ mode = "live"
    /\ Len(execution_filled) + (IF published THEN 1 ELSE 0) <= MaxFills
    /\ broker' = IF r.submitted THEN Append(broker, r.order) ELSE broker
    /\ execution_filled' = IF published
                           THEN Append(execution_filled, r.result)
                           ELSE execution_filled
    /\ exec_msg' = payload
    /\ UNCHANGED <<engine, riskVars, manager, current_prices, mode, ledger, audit, signalVars, args, connector>>
    /\ op' = "live_execution_request"
    /\ ret' = RetBool(published)

\* ACTIVATE_MANUAL_APPROVAL calls connector.set_manual_approval, which the
\* connector does not define: the AttributeError is caught by the loop
LiveRiskCommand(payload) ==
    LET liquidate == Get(payload, "command", "") = "LIQUIDATE_ALL" IN
    /\ mode = "live"
    /\ connector' = IF liquidate THEN activate_kill_switch(connector) ELSE connector
    /\ broker' = IF liquidate THEN Append(broker, CloseAllPositions) ELSE broker
    /\ UNCHANGED <<engine, riskVars, manager, current_prices, execution_filled,
                   exec_msg, mode, ledger, audit, signalVars>>
    /\ op' = "live_risk_command"
    /\ ret' = RetNone

LiveOnRiskCommand(payload) == LiveRiskCommand(payload) /\ UNCHANGED args

(***************************************************************************)
(* The Execution Engine in live mode, fed by the bus                       *)
(***************************************************************************)
MaxBrokerCalls == 3

InitLive == InitMode("live")

\* requests as the Risk Governor builds them, one without side or signal,
\* one below the confidence threshold
LiveRequestSamples ==
    {Request("m1", "SPY", 50, side) : side \in {"buy", "sell", "hold"}}
    \cup {[model_id |-> "m1", symbol |-> "SPY", qty |-> 50, confidence |-> 80],
          [model_id |-> "m1", symbol |-> "SPY", qty |-> 50, side |-> "buy",
           confidence |-> 50]}

LiveMarketDataArrives ==
    \E payload \in MarketData, poll_due \in BOOLEAN, acct \in AccountSamples :
        /\ LiveOnMarketData(payload, poll_due, acct)
        /\ Len(broker') <= MaxBrokerCalls
        /\ UNCHANGED cursors

LiveRequestArrives ==
    \E payload \in LiveRequestSamples, equity \in {0, 100000},
       outcome \in SubmitOutcomes :
        /\ LiveOnExecutionRequest(payload, equity, outcome)
        /\ Len(broker') <= MaxBrokerCalls
        /\ UNCHANGED cursors

LiveCommandArrives ==
    \E payload \in CommandSamples :
        /\ LiveRiskCommand(payload)
        /\ args' = payload
        /\ Len(broker') <= MaxBrokerCalls
        /\ UNCHANGED cursors

NextLive ==
    \/ LiveMarketDataArrives
    \/ LiveRequestArrives
    \/ LiveCommandArrives

SpecLive == InitLive /\ [][NextLive]_vars


(***************************************************************************)
(* The TitanAlpacaConnector's operations, called in any order              *)
(***************************************************************************)
ConnectorSignals == {"BUY", "SELL", "HOLD", "sell"}

ConnectorFrame ==
    UNCHANGED <<engine, riskVars, manager, current_prices, execution_filled,
                exec_msg, mode, ledger, audit, signalVars, cursors>>

ConnectorActivateKillSwitch ==
    /\ connector' = activate_kill_switch(connector)
    /\ args' = << >> /\ op' = "activate_kill_switch" /\ ret' = RetNone
    /\ UNCHANGED broker /\ ConnectorFrame

ConnectorDeactivateKillSwitch ==
    /\ connector' = deactivate_kill_switch(connector)
    /\ args' = << >> /\ op' = "deactivate_kill_switch" /\ ret' = RetNone
    /\ UNCHANGED broker /\ ConnectorFrame

ConnectorActivateManualApprovalMode ==
    /\ connector' = activate_manual_approval_mode(connector)
    /\ args' = << >> /\ op' = "activate_manual_approval_mode" /\ ret' = RetNone
    /\ UNCHANGED broker /\ ConnectorFrame

ConnectorDeactivateManualApprovalMode ==
    /\ connector' = deactivate_manual_approval_mode(connector)
    /\ args' = << >> /\ op' = "deactivate_manual_approval_mode" /\ ret' = RetNone
    /\ UNCHANGED broker /\ ConnectorFrame

\* ret: whether an order summary was returned (None or an exception otherwise)
ConnectorExecuteSignal ==
    \E signal \in ConnectorSignals, confidence \in {50, 80}, price \in {0, 10000},
       equity \in {0, 100000}, outcome \in SubmitOutcomes :
       \E r \in {execute_signal(connector, "SPY", signal, confidence, "m1",
                                price, equity, outcome)} :
        /\ Len(broker) + (IF r.submitted THEN 1 ELSE 0) <= MaxBrokerCalls
        /\ broker' = IF r.submitted THEN Append(broker, r.order) ELSE broker
        /\ args' = <<"SPY", signal, confidence, "m1", price>>
        /\ op' = "execute_signal"
        /\ ret' = RetBool(r.submitted /\ ~r.raised)
        /\ UNCHANGED connector /\ ConnectorFrame

NextConnector ==
    \/ ConnectorActivateKillSwitch
    \/ ConnectorDeactivateKillSwitch
    \/ ConnectorActivateManualApprovalMode
    \/ ConnectorDeactivateManualApprovalMode
    \/ ConnectorExecuteSignal

SpecConnector == InitLive /\ [][NextConnector]_vars

(***************************************************************************)
(* A TradeAuditLogger on its own, its operations called in any order       *)
(***************************************************************************)
MaxAuditRecords == 2

\* a fill as simulate_fill builds it, and the order summary execute_signal
\* returns, which the live loop publishes as its fill
AuditFillEvents ==
    {[model_id |-> "m1", symbol |-> "SPY", side |-> "BUY", qty |-> 10,
      price |-> 10005, status |-> "FILLED", mode |-> "paper"],
     [model_id |-> "m1", model_version |-> "v1.0", symbol |-> "SPY",
      side |-> "buy", qty |-> 16, price_at_signal |-> 10000,
      status |-> "accepted", mode |-> "live"]}

AuditFrame ==
    UNCHANGED <<engine, riskVars, execState, ledger, signalVars, cursors>>

AuditCall(r, name, a) ==
    /\ Len(r.audit.file) <= MaxAuditRecords
    /\ Len(r.audit.events) <= MaxAuditRecords
    /\ audit' = r.audit
    /\ args' = a
    /\ op' = name
    /\ ret' = RetBool(~r.raised)
    /\ AuditFrame

AuditSetRedisClient ==
    /\ audit' = set_redis_client(audit)
    /\ args' = << >> /\ op' = "set_redis_client" /\ ret' = RetNone
    /\ AuditFrame

AuditLogSignal ==
    \E disk_ok \in BOOLEAN, bus_ok \in BOOLEAN :
        AuditCall(log_signal(audit, disk_ok, bus_ok), "log_signal",
                  [disk_ok |-> disk_ok, bus_ok |-> bus_ok])

AuditLogOrder ==
    \E disk_ok \in BOOLEAN, bus_ok \in BOOLEAN :
        AuditCall(log_order(audit, disk_ok, bus_ok), "log_order",
                  [disk_ok |-> disk_ok, bus_ok |-> bus_ok])

AuditLogFill ==
    \E fill_event \in AuditFillEvents, disk_ok \in BOOLEAN, bus_ok \in BOOLEAN :
        AuditCall(log_fill(audit, fill_event, disk_ok, bus_ok), "log_fill",
                  [disk_ok |-> disk_ok, bus_ok |-> bus_ok,
                   fill_event |-> fill_event])

AuditLogKillSwitch ==
    \E disk_ok \in BOOLEAN, bus_ok \in BOOLEAN :
        AuditCall(log_kill_switch(audit, disk_ok, bus_ok), "log_kill_switch",
                  [disk_ok |-> disk_ok, bus_ok |-> bus_ok])

AuditLogManualApprovalMode ==
    \E disk_ok \in BOOLEAN, bus_ok \in BOOLEAN :
        AuditCall(log_manual_approval_mode(audit, disk_ok, bus_ok),
                  "log_manual_approval_mode",
                  [disk_ok |-> disk_ok, bus_ok |-> bus_ok])

NextAudit ==
    \/ AuditSetRedisClient
    \/ AuditLogSignal
    \/ AuditLogOrder
    \/ AuditLogFill
    \/ AuditLogKillSwitch
    \/ AuditLogManualApprovalMode

SpecAudit == Init /\ [][NextAudit]_vars

(***************************************************************************)
(* The Risk Governor as main() of services/risk/main.py starts it: the     *)
(* engine as constructed, and only the messages of the two channels the    *)
(* loop subscribes to.  Nothing in the service calls update_account_state. *)
(***************************************************************************)
MainTradeSignalArrives ==
    \E data \in TradeSignals :
        /\ RiskTradeSignal(data)
        /\ args' = data
        /\ UNCHANGED <<execState, ledger, audit, signalVars, cursors>>

MainFillArrives == FillArrives

NextRiskMain == MainTradeSignalArrives \/ MainFillArrives

SpecRiskMain == Init /\ [][NextRiskMain]_vars

(***************************************************************************)
(* The paper loop with the command handled last kept in args               *)
(***************************************************************************)
PaperCommandHandled ==
    \E payload \in CommandSamples :
        PaperRiskCommand(payload) /\ args' = payload /\ UNCHANGED cursors

NextPaperHalt ==
    \/ PaperMarketData
    \/ PaperRequestArrives
    \/ PaperCommandHandled

SpecPaperHalt == Init /\ [][NextPaperHalt]_vars

(***************************************************************************)
(* The paper loop with the latency wait as a step of its own               *)
(***************************************************************************)
LoopFrame ==
    UNCHANGED <<engine, riskVars, current_prices, mode, ledger, audit, strategy,
                tick_log, leaderboard, signal_engine, connector, broker, cursors>>

LoopMarketData == LoopFree(paper_loop) /\ PaperMarketData

LoopCommand == LoopFree(paper_loop) /\ PaperCommandArrives

\* a request is received and handled down to the latency wait, or to the
\* return of None before it
LoopRequestBegin ==
    \E payload \in RequestSamples :
        \E price \in {Get(current_prices, Get(payload, "symbol", "None"), 0)} :
        \E r \in {simulate_fill_until_latency(payload, price, manager)} :
            /\ mode = "paper"
            /\ LoopFree(paper_loop)
            /\ r.proceed => Len(execution_filled) < MaxFills
            /\ manager' = r.mgr
            /\ exec_msg' = payload
            /\ paper_loop' = IF r.proceed
                             THEN [pc |-> "latency", signal |-> payload,
                                   current_price |-> price, order |-> r.order]
                             ELSE PaperLoopInit
            /\ op' = IF r.proceed THEN "paper_latency" ELSE "paper_execution_request"
            /\ ret' = RetBool(FALSE)
            /\ UNCHANGED <<execution_filled, args>>
            /\ LoopFrame

\* the wait is over: slippage, ledger update, publish of the fill
LoopRequestResume ==
    /\ paper_loop.pc = "latency"
    /\ \E noise \in Noises :
        \E fill \in {simulate_fill_after_latency(paper_loop.order, noise)} :
            /\ mode = "paper"
            /\ manager' = on_execution_fill(manager, fill)
            /\ execution_filled' = Append(execution_filled, fill)
            /\ paper_loop' = PaperLoopInit
            /\ args' = [noise |-> noise]
            /\ op' = "paper_execution_request"
            /\ ret' = RetBool(TRUE)
            /\ UNCHANGED exec_msg
            /\ LoopFrame

NextPaperLoop ==
    \/ LoopMarketData
    \/ LoopCommand
    \/ LoopRequestBegin
    \/ LoopRequestResume

SpecPaperLoop == Init /\ [][NextPaperLoop]_vars

(***************************************************************************)
(* The Risk Governor, its two channels and the account state that reaches  *)
(* the engine; nothing calls a reset.  The message handled is kept in args.*)
(***************************************************************************)
\* signals with every value of the signal field the loop tells apart
BusSignals ==
    {Signal("m1", "SPY", sig, 10000, 80) : sig \in {"BUY", "SELL", "HOLD", "buy"}}
    \cup {Restrict(Signal("m1", "SPY", "BUY", 10000, 80), SignalKeys \ {"signal"})}

MaxBusCommands == 2

BusTradeSignalArrives ==
    \E data \in BusSignals :
        /\ RiskTradeSignalUpTo(data, MaxRequests, MaxBusCommands)
        /\ args' = data
        /\ UNCHANGED <<execState, ledger, audit, signalVars, cursors>>

BusFillArrives ==
    \E data \in FillSamples :
        /\ Len(engine.recent_predictions) <= MaxSamples
        /\ engine' = HandleExecutionFilled(engine, data)
        /\ args' = data
        /\ op' = "execution_filled"
        /\ ret' = RetNone
        /\ UNCHANGED <<riskVars, execState, ledger, audit, signalVars, cursors>>

NextRiskBus ==
    \/ BusTradeSignalArrives
    \/ BusFillArrives
    \/ AccountPoll

SpecRiskBus == Init /\ [][NextRiskBus]_vars

(***************************************************************************)
(* The execution_filled branch of the Risk Governor on fills of both       *)
(* sides, with slippage of either sign, small and large against the price  *)
(***************************************************************************)
DirectedFills ==
    {[price |-> p, slippage |-> sl, side |-> side] :
         p \in {0, 10000, 1000000}, sl \in {-1, 0, 1}, side \in {"BUY", "SELL", "sell"}}
    \cup {[price |-> 10000, slippage |-> 1]}

DirectedFillArrives ==
    \E data \in DirectedFills :
        /\ Len(engine.recent_predictions) < MaxSamples
        /\ engine' = HandleExecutionFilled(engine, data)
        /\ args' = data
        /\ op' = "execution_filled"
        /\ ret' = RetNone
        /\ UNCHANGED <<riskVars, execState, ledger, audit, signalVars, cursors>>

NextRiskFills == DirectedFillArrives

SpecRiskFills == Init /\ [][NextRiskFills]_vars

(***************************************************************************)
(* The paper loop on requests whose model_id is present, empty or missing  *)
(***************************************************************************)
IdRequests ==
    {[model_id |-> id, symbol |-> "SPY", qty |-> 50, side |-> side] :
         id \in {"m1", "m2", ""}, side \in {"buy", "sell"}}
    \cup {[symbol |-> "SPY", qty |-> 50, side |-> side] : side \in {"buy", "sell"}}

PaperIdRequestArrives ==
    \E payload \in IdRequests, noise \in Noises :
        PaperOnExecutionRequest(payload, noise) /\ UNCHANGED cursors

NextPaperIds == PaperMarketData \/ PaperIdRequestArrives

SpecPaperIds == Init /\ [][NextPaperIds]_vars

(***************************************************************************)
(* The paper loop with its leaderboard: market data at the times the clock *)
(* shows, and execution requests of several models                         *)
(***************************************************************************)
MaxClock == 5
MaxBoards == 2

\* the market_data branch in full: the price cache, then the leaderboard
\* when publish_interval has passed; an exception of publish_portfolios
\* leaves the branch before last_publish_at is set
PaperOnMarketDataAt(payload, now) ==
    LET prices2 == IF Get(payload, "type", "") = "trade"
                   THEN [sym \in DOMAIN current_prices \cup {payload["symbol"]} |->
                            IF sym = payload["symbol"] THEN payload["price"]
                            ELSE current_prices[sym]]
                   ELSE current_prices
        due == now - leaderboard.last_publish_at >= PUBLISH_INTERVAL
        r   == publish_portfolios(manager, prices2)
    IN
    /\ mode = "paper"
    /\ current_prices' = prices2
    /\ leaderboard' =
           IF due /\ ~r.raised
           THEN [now |-> now, last_publish_at |-> now,
                 paper_portfolio_updates |->
                     Append(leaderboard.paper_portfolio_updates, r.payload)]
           ELSE [leaderboard EXCEPT !.now = now]
    /\ UNCHANGED <<engine, riskVars, manager, execution_filled, exec_msg, mode,
                   ledger, audit, strategy, tick_log, paper_loop, signal_engine,
                   args, connector, broker>>
    /\ op' = "paper_market_data"
    /\ ret' = RetBool(due /\ ~r.raised)

LeaderboardMarketData ==
    \E payload \in MarketData, dt \in 0..PUBLISH_INTERVAL :
        /\ leaderboard.now + dt <= MaxClock
        /\ PaperOnMarketDataAt(payload, leaderboard.now + dt)
        /\ Len(leaderboard'.paper_portfolio_updates) <= MaxBoards
        /\ UNCHANGED cursors

\* requests of two models
LeaderboardRequests == {payload \in IdRequests : Get(payload, "model_id", "") # ""}

LeaderboardRequestArrives ==
    \E payload \in LeaderboardRequests, noise \in Noises :
        PaperOnExecutionRequest(payload, noise) /\ UNCHANGED cursors

NextLeaderboard == LeaderboardMarketData \/ LeaderboardRequestArrives

SpecLeaderboard == Init /\ [][NextLeaderboard]_vars

(***************************************************************************)
(* The Signal Engine over some cycles                                      *)
(***************************************************************************)
MaxCycles == 1
MaxPublished == 3

HybridOutcomes == {"none", "BUY", "raise"}
StrategyOutcomes == {"none", "SELL", "raise"}

SignalFrame ==
    UNCHANGED <<engine, riskVars, execState, ledger, audit, strategy, tick_log,
                paper_loop, leaderboard, cursors>>

\* one process_symbol task of the cycle's asyncio.gather
ProcessSymbol ==
    \E symbol \in WATCHLIST \ signal_engine.done, fetched \in BOOLEAN,
       hybrid \in HybridOutcomes,
       outcomes \in [1..Len(BASELINE_STRATEGIES) -> StrategyOutcomes] :
        LET r == process_symbol(symbol, fetched, hybrid, outcomes) IN
        /\ Len(signal_engine.trade_signals) + Len(r.published) <= MaxPublished
        /\ signal_engine' =
               [signal_engine EXCEPT !.done = @ \cup {symbol},
                                     !.trade_signals = @ \o r.published]
        /\ args' = [symbol |-> symbol, fetched |-> fetched, hybrid |-> hybrid,
                    outcomes |-> outcomes]
        /\ op' = "process_symbol"
        /\ ret' = [b |-> FALSE, n |-> Len(r.published), raised |-> r.raised]
        /\ SignalFrame

\* the gather is complete; after the sleep the next cycle begins
NextCycle ==
    /\ signal_engine.done = WATCHLIST
    /\ signal_engine.cycle < MaxCycles
    /\ signal_engine' = [signal_engine EXCEPT !.cycle = @ + 1, !.done = {}]
    /\ args' = << >>
    /\ op' = "sleep"
    /\ ret' = RetNone
    /\ SignalFrame

NextSignalEngine == ProcessSymbol \/ NextCycle

SpecSignalEngine == Init /\ [][NextSignalEngine]_vars

(***************************************************************************)
(* One strategy instance fed a sequence of ticks                           *)
(***************************************************************************)
MaxTicks == 6

TickPrices == {0, 10000, 11000, 12000}

\* the signal dictionary on_tick returns, or None
RetSignal(r, price) ==
    IF r.signal = "NONE" THEN RetNone
    ELSE [b |-> FALSE, n |-> 0, signal |-> r.signal, price |-> price]

StrategyOnTick ==
    \E price \in TickPrices :
        \E r \in {on_tick(strategy, [price |-> price])} :
            /\ tick_log.inputs < MaxTicks
            /\ strategy' = r.strategy
            /\ tick_log' = [inputs  |-> tick_log.inputs + 1,
                           emitted |-> IF r.signal = "NONE" THEN tick_log.emitted
                                       ELSE r.signal,
                           before  |-> IF r.signal = "NONE" THEN tick_log.before
                                       ELSE tick_log.emitted]
            /\ args' = [price |-> price]
            /\ op' = "on_tick"
            /\ ret' = IF r.raised THEN [b |-> FALSE, n |-> 0, raised |-> TRUE]
                      ELSE RetSignal(r, price)
            /\ UNCHANGED <<engine, riskVars, execState, ledger, audit, paper_loop,
                           leaderboard, signal_engine, cursors>>

NextStrategy == StrategyOnTick

InitStrategies ==
    \E kind \in StrategyKinds : InitStrategy(kind) /\ InitCore("paper")

SpecStrategy == InitStrategies /\ [][NextStrategy]_vars

(***************************************************************************)
(* The pipeline: Signal Engine -> trade_signals -> Risk Governor ->        *)
(* execution_requests -> Execution Engine -> execution_filled -> Risk      *)
(* Governor, with risk_commands from Risk to Execution.  Each subscriber   *)
(* receives the messages of a topic in the order of their publication.     *)
(***************************************************************************)
Modes == {"paper", "live"}

PipelineSignals ==
    {Signal("m1", "SPY", sig, 10000, 80) : sig \in {"BUY", "SELL"}}
    \cup {Restrict(Signal("m1", "SPY", "BUY", 10000, 50), SignalKeys \ {"model_id"})}

Advance(topic) == cursors' = [cursors EXCEPT ![topic] = @ + 1]

SignalPublished ==
    \E data \in PipelineSignals : RiskOnTradeSignal(data) /\ UNCHANGED cursors

FillDelivered ==
    /\ cursors.fills < Len(execution_filled)
    /\ RiskOnExecutionFilled(execution_filled[cursors.fills + 1])
    /\ Advance("fills")

PaperRequestDelivered ==
    /\ cursors.requests < Len(execution_requests)
    /\ \E noise \in Noises :
           PaperOnExecutionRequest(execution_requests[cursors.requests + 1], noise)
    /\ Advance("requests")

LiveRequestDelivered ==
    /\ cursors.requests < Len(execution_requests)
    /\ \E equity \in {0, 100000}, outcome \in SubmitOutcomes :
           LiveOnExecutionRequest(execution_requests[cursors.requests + 1],
                                  equity, outcome)
    /\ Advance("requests")

PaperCommandDelivered ==
    /\ cursors.commands < Len(risk_commands)
    /\ PaperOnRiskCommand(risk_commands[cursors.commands + 1])
    /\ Advance("commands")

LiveCommandDelivered ==
    /\ cursors.commands < Len(risk_commands)
    /\ LiveOnRiskCommand(risk_commands[cursors.commands + 1])
    /\ Advance("commands")

LiveMarketData ==
    \E payload \in MarketData, poll_due \in BOOLEAN, acct \in AccountSamples :
        LiveOnMarketData(payload, poll_due, acct) /\ UNCHANGED cursors

Next ==
    \/ SignalPublished
    \/ AccountPoll
    \/ FillDelivered
    \/ PaperMarketData
    \/ PaperRequestDelivered
    \/ PaperCommandDelivered
    \/ LiveMarketData
    \/ LiveRequestDelivered
    \/ LiveCommandDelivered

InitPipeline == \E m \in Modes : InitMode(m)

Spec == InitPipeline /\ [][Next]_vars

(***************************************************************************)
(* Properties                                                              *)
(***************************************************************************)
Blocked(e) == e.is_kill_switch_active \/ e.is_manual_approval_mode

Published(log, logAfter) == SubSeq(logAfter, Len(log) + 1, Len(logAfter))

CountCommand(log, command) ==
    Cardinality({i \in 1..Len(log) : log[i].command = command})

\* C1: simulate_fill returns no fill for every payload that lacks the `side`
\* key or lacks the `qty` key, whatever the cached price and the portfolio.
C1_NoFillWithoutSideOrQty ==
    (op = "paper_execution_request"
        /\ ("side" \notin DOMAIN exec_msg \/ "qty" \notin DOMAIN exec_msg))
    => ret = RetBool(FALSE)

C3_KillSwitchMonotone ==
    [][(engine.is_kill_switch_active /\ op' # "reset_kill_switch")
          => engine'.is_kill_switch_active]_vars

\* the switch is still set after an account update that shows no loss
C3_Witness ==
    /\ op = "update_account_state"
    /\ engine.is_kill_switch_active
    /\ engine.daily_pnl = 0

\* C4: in the Risk Governor loop, after max_consecutive_losses consecutive
\* losing execution_filled messages the next trade signal publishes no
\* request and exactly one LIQUIDATE_ALL command.
C4_LossStreakLiquidates ==
    [][(op' = "trade_signal" /\ engine.consecutive_losses >= MAX_CONSECUTIVE_LOSSES) =>
          /\ execution_requests' = execution_requests
          /\ Len(risk_commands') = Len(risk_commands) + 1
          /\ risk_commands'[Len(risk_commands')].command = "LIQUIDATE_ALL"]_vars

\* C5: every message published on execution_filled, in paper and in live
\* mode, is derived from a message already on execution_requests with the
\* same model_id and the same direction.
C5_FillHasPriorRequest ==
    [][execution_filled' # execution_filled =>
          /\ Len(Published(execution_filled, execution_filled')) = 1
          /\ op' \in {"paper_execution_request", "live_execution_request"}
          /\ \E j \in 1..Len(execution_requests) :
                 LET req  == execution_requests[j]
                     fill == execution_filled'[Len(execution_filled')]
                 IN  /\ exec_msg' = req
                     /\ fill.model_id = req.model_id
                     /\ Upper(fill.side) = Upper(req.side)]_vars

\* a purchase and then a sale were filled
C5_Witness ==
    /\ Len(execution_filled) = 2
    /\ Upper(execution_filled[1].side) = "BUY"
    /\ Upper(execution_filled[2].side) = "SELL"

\* C6: every message the Risk Governor publishes on execution_requests has
\* side buy or sell in lowercase and a positive integer qty.
C6_RequestSchema ==
    \A i \in 1..Len(execution_requests) :
        /\ execution_requests[i].side \in {"buy", "sell"}
        /\ execution_requests[i].qty \in Nat \ {0}

C6_Witness ==
    /\ Len(execution_requests) = 2
    /\ execution_requests[1].side = "buy"
    /\ execution_requests[2].side = "sell"

\* C7: every message published on execution_filled, in paper and in live
\* mode, has side BUY or SELL in uppercase and status FILLED.
C7_FillSchema ==
    \A i \in 1..Len(execution_filled) :
        /\ execution_filled[i].side \in {"BUY", "SELL"}
        /\ execution_filled[i].status = "FILLED"

C9_RollbackCondition ==
    [][(op' = "check_model_performance" /\ ~engine.is_manual_approval_mode) =>
          LET n      == Len(engine.recent_predictions)
              sharpe == get_rolling_sharpe(engine)
              due    == /\ n >= 5
                        /\ Len(engine.recent_returns) >= 5
                        /\ \/ (~sharpe.none /\ sharpe.v < ROLLBACK_MIN_SHARPE_E4)
                           \/ CountTrue(engine.recent_predictions) * 100
                                  < ROLLBACK_MIN_ACCURACY_PCT * n
          IN  /\ ret' = RetBool(due)
              /\ engine'.is_manual_approval_mode = due
              /\ n < 5 => ~engine'.is_manual_approval_mode]_vars

\* a rollback on the Sharpe ratio alone: every prediction was correct
C9_Witness ==
    /\ op = "check_model_performance"
    /\ ret = RetBool(TRUE)
    /\ engine.is_manual_approval_mode
    /\ CountTrue(engine.recent_predictions) = Len(engine.recent_predictions)

\* C10: in MANUAL, check_model_performance returns False and changes
\* nothing, and the flag stays True under every operation except
\* reset_manual_approval_mode, reset_kill_switch included.
C10_ManualModeSticky ==
    [][engine.is_manual_approval_mode =>
          /\ op' = "check_model_performance" =>
                 (ret' = RetBool(FALSE) /\ engine' = engine)
          /\ op' # "reset_manual_approval_mode" =>
                 engine'.is_manual_approval_mode]_vars

C10_Witness ==
    /\ op = "reset_kill_switch"
    /\ engine.is_manual_approval_mode
    /\ ~engine.is_kill_switch_active

\* the limits of check_kill_switch as the documentation states them: the
\* day's loss as a fraction of starting_equity, or the run of losses
DrawdownBreached(e) ==
    /\ e.starting_equity # 0
    /\ IF e.starting_equity > 0
       THEN e.daily_pnl * 10000 <= -(MAX_DAILY_LOSS_BP * e.starting_equity)
       ELSE e.daily_pnl * 10000 >= -(MAX_DAILY_LOSS_BP * e.starting_equity)

LossLimitReached(e) == e.consecutive_losses >= MAX_CONSECUTIVE_LOSSES

\* C11: check_kill_switch returns True and sets the kill switch in every
\* state where daily_pnl / starting_equity <= -max_daily_loss_pct or
\* consecutive_losses >= max_consecutive_losses, equality included, and
\* returns False without changing the flag in every other state.
C11_KillSwitchExactlyWhenDue ==
    [][op' = "check_kill_switch" =>
          LET due == DrawdownBreached(engine) \/ LossLimitReached(engine)
          IN  /\ ret' = RetBool(due)
              /\ engine'.is_kill_switch_active =
                     (engine.is_kill_switch_active \/ due)]_vars

\* update_account_state has been called at least once: only that call moves
\* current_equity and daily_pnl off zero, only a reset after it moves
\* starting_equity off zero
AccountSeen ==
    \/ op = "update_account_state"
    \/ engine.current_equity # 0
    \/ engine.daily_pnl # 0
    \/ engine.starting_equity # 0

\* C12: starting_equity is fixed by the first update_account_state call, to
\* equity - daily_pnl; no later update_account_state call changes it, and
\* afterwards only reset_kill_switch does.
C12_StartingEquityPinned ==
    [][/\ engine'.starting_equity # engine.starting_equity =>
              op' \in {"update_account_state", "reset_kill_switch"}
       /\ op' = "update_account_state" =>
              IF AccountSeen
              THEN engine'.starting_equity = engine.starting_equity
              ELSE engine'.starting_equity = args'[1] - args'[2]]_vars

\* floor(equity * risk_per_trade_pct / |entry - stop|), equity in dollars,
\* prices in cents
FixedFractional(equity, entry, stop) ==
    (equity * RISK_PER_TRADE_BP) \div (100 * Abs(entry - stop))

\* C13: calculate_position_size(entry, stop) is
\* floor(current_equity * risk_per_trade_pct / |entry - stop|) when the kill
\* switch is inactive and entry # stop, and 0 otherwise; a request published
\* for a signal of price p carries that value as qty, with stop 0.98 p for
\* BUY and 1.02 p otherwise, and no request is published when it is <= 0.
C13_PositionSize ==
    [][/\ op' = "calculate_position_size" =>
              ret'.n = IF ~engine.is_kill_switch_active /\ args'[1] # args'[2]
                       THEN FixedFractional(engine.current_equity, args'[1], args'[2])
                       ELSE 0
       /\ op' = "trade_signal" /\ "price" \in DOMAIN args' =>
              LET p    == args'.price
                  stop == IF args'.signal = "BUY" THEN (p * 98) \div 100
                          ELSE (p * 102) \div 100
                  size == IF ~engine.is_kill_switch_active /\ p # stop
                          THEN FixedFractional(engine.current_equity, p, stop)
                          ELSE 0
                  sent == Published(execution_requests, execution_requests')
              IN  /\ \A i \in 1..Len(sent) : sent[i].qty = size
                  /\ size <= 0 => sent = << >>]_vars

\* the quotient 99000 * 0.001 / 2 = 49.5 is cut to 49, for the direct call
\* and for the request published for a signal
C13_Witness ==
    /\ op = "trade_signal"
    /\ args.signal = "SELL"
    /\ engine.current_equity = 99000
    /\ execution_requests # << >>
    /\ execution_requests[Len(execution_requests)].qty = 49

\* C14: on_execution_fill for a fill routed to one portfolio leaves the
\* cash, positions and history of every other portfolio unchanged: at most
\* one portfolio changes, it is one the fill's keys name, and no portfolio
\* appears or disappears.
C14_FillChangesOnePortfolio ==
    [][op' = "on_execution_fill" =>
          LET changed == {pid \in DOMAIN manager.portfolios :
                             manager'.portfolios[pid] # manager.portfolios[pid]}
              named   == {Get(manager.order_map, Get(args', "order_id", ""), ""),
                          Get(args', "strategy_id", ""),
                          Get(args', "model_id", "")}
          IN  /\ DOMAIN manager'.portfolios = DOMAIN manager.portfolios
              /\ Cardinality(changed) <= 1
              /\ changed \subseteq named]_vars

\* two portfolios, a fill entered in m2, m1 as it was created
C14_Witness ==
    /\ op = "on_execution_fill"
    /\ DOMAIN manager.portfolios = {"m1", "m2"}
    /\ manager.portfolios["m1"] = VirtualPortfolio("m1", STARTING_CASH)
    /\ Len(manager.portfolios["m2"].history) = 1
    /\ manager.portfolios["m2"].cash # STARTING_CASH

\* the first of the order's registered portfolio, strategy_id and model_id
\* that names an existing portfolio; "" when none does
FirstExistingKey(mgr, fill_event) ==
    LET keys == << Get(mgr.order_map, Get(fill_event, "order_id", ""), ""),
                   Get(fill_event, "strategy_id", ""),
                   Get(fill_event, "model_id", "") >>
        hits == {i \in 1..3 : keys[i] \in DOMAIN mgr.portfolios}
    IN  IF hits = {} THEN ""
        ELSE keys[CHOOSE i \in hits : \A j \in hits : i <= j]

\* C15: on_execution_fill applies a fill to the portfolio named by the first
\* of the order_id's registered mapping, strategy_id and model_id that names
\* an existing portfolio, and discards it, changing no portfolio, only when
\* none of them does.
C15_RoutesToFirstExistingKey ==
    [][op' = "on_execution_fill" =>
          LET target == FirstExistingKey(manager, args')
          IN  IF target # ""
              THEN manager' = [manager EXCEPT !.portfolios[target] =
                                  update_from_fill(@, args')]
              ELSE manager' = manager]_vars

\* C18: after every update_from_fill on a core VirtualPortfolio no symbol of
\* its positions has qty = 0: a fill that brings a position to zero removes
\* the symbol.
C18_NoFlatPosition ==
    \A pid \in DOMAIN manager.portfolios :
        \A sym \in DOMAIN manager.portfolios[pid].positions :
            manager.portfolios[pid].positions[sym].qty # 0

\* a sale of the ten shares bought before: the symbol is gone
C18_Witness ==
    /\ op = "on_execution_fill"
    /\ args.side = "sell"
    /\ \E pid \in DOMAIN manager.portfolios :
           LET vp == manager.portfolios[pid]
           IN  /\ Len(vp.history) = 2
               /\ vp.history[1].side = "buy" /\ vp.history[1].qty = 10
               /\ vp.history[2].side = "sell" /\ vp.history[2].qty = 10
               /\ "SPY" \notin DOMAIN vp.positions

\* the shares of a symbol held after the first n fills of a history
HeldAfter(history, n, symbol) ==
    LET RECURSIVE Net(_)
        Net(i) == IF i = 0 THEN 0
                  ELSE Net(i - 1)
                       + (IF history[i].symbol # symbol THEN 0
                          ELSE IF history[i].side = "buy" THEN history[i].qty
                          ELSE -history[i].qty)
    IN  Net(n)

\* C20: a BUY fill of N shares at p1 and then a SELL fill of N shares at p2
\* for the same symbol, applied to a portfolio with no position in it, leave
\* cash = the cash before + N * (p2 - p1) and the symbol out of positions.
C20_RoundTrip ==
    \A pid \in DOMAIN manager.portfolios :
        LET vp == manager.portfolios[pid]
            n  == Len(vp.history)
        IN  n >= 2 =>
            LET b == vp.history[n - 1]
                s == vp.history[n]
                before == IF n = 2 THEN vp.initial_cash
                          ELSE vp.history[n - 2].remaining_cash
            IN  (/\ b.side = "buy" /\ s.side = "sell"
                 /\ b.symbol = s.symbol /\ b.qty = s.qty /\ b.qty > 0
                 /\ b.price > 0 /\ s.price > 0
                 /\ HeldAfter(vp.history, n - 2, b.symbol) = 0)
                => /\ vp.cash = before + b.qty * (s.price - b.price)
                   /\ b.symbol \notin DOMAIN vp.positions

\* ten shares bought at $90 and sold at $110: $200 more cash than at start
C20_Witness ==
    /\ op = "on_execution_fill"
    /\ "m1" \in DOMAIN manager.portfolios
    /\ Len(manager.portfolios["m1"].history) = 2
    /\ manager.portfolios["m1"].cash = STARTING_CASH + 20000
    /\ manager.portfolios["m1"].positions = << >>

\* C17: no position of a paper portfolio ever has qty < 0: a SELL handled by
\* the paper loop never removes more shares than the portfolio holds.
C17_NoShortPosition ==
    mode = "paper" =>
        \A pid \in DOMAIN manager.portfolios :
            \A sym \in DOMAIN manager.portfolios[pid].positions :
                manager.portfolios[pid].positions[sym].qty >= 0

\* C16: for every paper portfolio cash >= 0 after any sequence of execution
\* requests handled by the paper loop.
C16_CashNeverNegative ==
    mode = "paper" =>
        \A pid \in DOMAIN manager.portfolios : manager.portfolios[pid].cash >= 0

\* the cost of the open positions of a virtual_portfolio.py ledger:
\* the sum of qty * avg_cost
CostBasis(vp) ==
    LET RECURSIVE Sum(_)
        Sum(S) == IF S = {} THEN RZero
                  ELSE LET sym == CHOOSE x \in S : TRUE
                       IN  RAdd(RScale(vp.positions[sym].avg_cost,
                                       vp.positions[sym].qty),
                                Sum(S \ {sym}))
    IN  Sum(DOMAIN vp.positions)

\* C19 as stated: after any sequence of buys and sells,
\* cash + (sum over open positions of qty * avg_cost) + the realised P&L
\* equals starting_cash.
C19_ConservationAsStated ==
    RAdd(RAdd(RInt(ledger.cash), CostBasis(ledger)), ledger.realized_pnl)
        = RInt(ledger.starting_cash)

\* C19, amended: after any sequence of buys and sells,
\* cash + (sum over open positions of qty * avg_cost) - the realised P&L
\* equals starting_cash.
C19_Conservation ==
    RAdd(RAdd(RInt(ledger.cash), CostBasis(ledger)),
         RScale(ledger.realized_pnl, -1))
        = RInt(ledger.starting_cash)

\* a part of a position sold above its average cost, the rest still open
C19_Witness ==
    /\ op = "sell"
    /\ ret = RetBool(TRUE)
    /\ ledger.realized_pnl.num > 0
    /\ \E sym \in DOMAIN ledger.positions : ledger.positions[sym].qty > 0

\* C21: OrderValidator.validate rejects an order exactly when qty <= 0, or
\* price <= 0, or side is BUY and cash < qty * price, or qty * price > 50,000,
\* or side is BUY and (existing_qty + qty) * price > 25,000; so no single BUY
\* above 25,000 notional is ever accepted.
C21_ValidatorRules ==
    [][op' = "validate" =>
          LET portfolio == args'[1]
              symbol    == args'[2]
              price     == args'[3]
              qty       == args'[4]
              side      == args'[5]
              existing_qty == IF symbol \in DOMAIN portfolio.positions
                              THEN portfolio.positions[symbol].qty ELSE 0
              rejected  == \/ qty <= 0
                           \/ price <= 0
                           \/ side = "BUY" /\ portfolio.cash < qty * price
                           \/ qty * price > MAX_ORDER_VALUE
                           \/ side = "BUY"
                                  /\ (existing_qty + qty) * price > MAX_POS_SIZE
          IN  /\ ret'.b = ~rejected
              /\ ret'.b /\ side = "BUY" => qty * price <= MAX_POS_SIZE]_vars

\* C22: SlippageModel.calculate_price returns a price >= decision_price for
\* BUY and <= decision_price for SELL, for every positive decision price,
\* every qty and every value of the noise term, the rounding to 2 decimals
\* included; a decision price <= 0 is returned unchanged.
C22_SlippageDirection ==
    [][op' = "calculate_price" =>
          LET decision_price == args'[1]
              side           == args'[2]
          IN  IF decision_price <= 0 THEN ret'.n = decision_price
              ELSE /\ side = "BUY" => ret'.n >= decision_price
                   /\ side = "SELL" => ret'.n <= decision_price]_vars

\* the orders handed to the brokerage by a step
Submitted(log, logAfter) ==
    {i \in 1..Len(Published(log, logAfter)) :
         Published(log, logAfter)[i].call = "submit_order"}

\* C23: in live mode, after the loop has handled a LIQUIDATE_ALL command the
\* connector's kill-switch flag is set, after it has handled an
\* ACTIVATE_MANUAL_APPROVAL command the manual-approval flag is set, and the
\* execution request handled next leads to no order submission.
C23_CommandsBlockLiveOrders ==
    [][/\ op' = "live_risk_command" /\ args'.command = "LIQUIDATE_ALL" =>
              connector'.kill_switch_active
       /\ op' = "live_risk_command" /\ args'.command = "ACTIVATE_MANUAL_APPROVAL" =>
              connector'.manual_approval_mode
       /\ op = "live_risk_command" /\ op' = "live_execution_request" =>
              Submitted(broker, broker') = {}]_vars

AuditOperations ==
    {"log_signal", "log_order", "log_fill", "log_kill_switch",
     "log_manual_approval_mode"}

\* C25: no audit operation propagates an exception to its caller, whether
\* the disk append fails, the bus publish fails, or both, and for any fill
\* event passed to log_fill; a disk failure does not suppress the publish on
\* audit_events.
C25_AuditNeverRaises ==
    [][op' \in AuditOperations =>
          /\ ret' = RetBool(TRUE)
          /\ (audit.redis_client /\ args'.bus_ok) =>
                 Len(audit'.events) = Len(audit.events) + 1]_vars

IsSignal(r) == "signal" \in DOMAIN r

\* C26: for one SMACrossover or RSIMeanReversion instance and any tick
\* sequence the emitted signals strictly alternate: no two consecutive
\* emitted signals are both BUY or both SELL.
C26_SignalsAlternate ==
    (strategy.kind \in {"sma", "rsi"} /\ tick_log.emitted # "NONE") =>
        tick_log.emitted # tick_log.before

\* an RSI strategy whose last tick emitted a signal after an earlier one
C26_Witness ==
    /\ strategy.kind = "rsi"
    /\ op = "on_tick" /\ IsSignal(ret)
    /\ tick_log.before # "NONE"

WarmupOf(kind) ==
    CASE kind = "sma" -> SLOW_PERIOD
      [] kind = "rsi" -> RSI_PERIOD
      [] OTHER -> WARMUP_PERIOD

\* C27: a strategy with warm-up period W returns no signal on any of its
\* first W inputs (W is warmup_period for TFTStrategy and LSTMStrategy,
\* rsi_period for RSIMeanReversion, slow_period for SMACrossover), and a
\* tick whose price is not positive never produces a signal.
C27_NoSignalDuringWarmup ==
    op = "on_tick" =>
        /\ tick_log.inputs <= WarmupOf(strategy.kind) => ~IsSignal(ret)
        /\ args.price <= 0 => ~IsSignal(ret)

\* C28: in the Risk Governor loop as started by main(), a trade signal with
\* signal BUY or SELL and price > 0, received while neither the kill switch
\* nor manual-approval mode is active and the kill-switch re-evaluation does
\* not trip, results in one execution request published on
\* execution_requests.
C28_ApprovedSignalPublishesRequest ==
    [][(/\ op' = "trade_signal"
        /\ SignalKeys \subseteq DOMAIN args'
        /\ Get(args', "signal", "") \in {"BUY", "SELL"}
        /\ Get(args', "price", 0) > 0
        /\ ~Blocked(engine)
        /\ ~check_kill_switch(engine).ret) =>
          Len(execution_requests') = Len(execution_requests) + 1]_vars

\* C29: in paper mode, after the Execution Engine has handled a
\* LIQUIDATE_ALL command, no later execution request produces a fill or a
\* ledger change, whenever that request was published.
C29_NoFillAfterLiquidateAll ==
    [][(/\ Get(args, "command", "") = "LIQUIDATE_ALL"
        /\ op' = "paper_execution_request") =>
          /\ execution_filled' = execution_filled
          /\ manager' = manager]_vars

\* C30: the paper loop handles messages one at a time.  While a request
\* waits at the latency suspension point the only step is its own
\* completion, which applies to the ledger and publishes the fill that
\* simulate_fill gives for that request on the ledger as it stands; and
\* whenever the loop takes a message every published fill is in the ledger,
\* so the validation of request k+1 sees the ledger after fill k.
C30_OneMessageAtATime ==
    [][/\ paper_loop.pc = "latency" =>
            /\ op' = "paper_execution_request"
            /\ paper_loop'.pc = "listen"
            /\ exec_msg' = paper_loop.signal
            /\ \E r \in {simulate_fill(paper_loop.signal, paper_loop.current_price,
                                       manager, Get(args', "noise", 0))} :
                   /\ r.ret.filled
                   /\ execution_filled' = Append(execution_filled, r.ret.fill)
                   /\ manager' = on_execution_fill(r.mgr, r.ret.fill)
       /\ paper_loop.pc = "listen" =>
            FillsEntered(manager) = Len(execution_filled)]_vars

\* a second request has been through the latency wait and is filled
C30_Witness ==
    /\ op = "paper_execution_request" /\ ret = RetBool(TRUE)
    /\ paper_loop.pc = "listen"
    /\ Len(execution_filled) = 2
    /\ FillsEntered(manager) = 2

\* C31: in the Risk Governor service no bus message clears the kill switch
\* or manual-approval mode: once either flag is set no execution request is
\* published for the rest of the run, whatever signals and fills arrive,
\* while execution_filled messages still update consecutive_losses and the
\* rolling windows.
C31_BlockedForTheRestOfTheRun ==
    [][/\ engine.is_kill_switch_active => engine'.is_kill_switch_active
       /\ engine.is_manual_approval_mode => engine'.is_manual_approval_mode
       /\ Blocked(engine) => execution_requests' = execution_requests
       /\ (Blocked(engine) /\ op' = "execution_filled" /\ Get(args', "price", 0) > 0) =>
            /\ Len(engine'.recent_predictions) = Len(engine.recent_predictions) + 1
            /\ Len(engine'.recent_returns) = Len(engine.recent_returns) + 1
            /\ engine'.consecutive_losses =
                   IF engine'.recent_returns[Len(engine'.recent_returns)] < 0
                   THEN engine.consecutive_losses + 1 ELSE 0]_vars

\* a losing fill recorded while the kill switch is active
C31_Witness ==
    /\ engine.is_kill_switch_active
    /\ op = "execution_filled"
    /\ Get(args, "price", 0) > 0
    /\ engine.consecutive_losses > 0
    /\ CountCommand(risk_commands, "LIQUIDATE_ALL") > 0

\* C32: between a kill-switch activation and the next reset the Risk
\* Governor publishes LIQUIDATE_ALL on risk_commands at most once, whatever
\* number of trade signals arrive while the switch is active: the step that
\* activates the switch publishes it, and no step taken while the switch is
\* active publishes it again.
C32_LiquidateAllOnce ==
    [][engine.is_kill_switch_active =>
          CountCommand(risk_commands', "LIQUIDATE_ALL") =
              CountCommand(risk_commands, "LIQUIDATE_ALL")]_vars

\* C33: the Risk Governor publishes a request with side buy only for a
\* trade signal whose signal is BUY and with side sell only for one whose
\* signal is SELL; a signal that is HOLD, missing or any other value never
\* produces an execution request.
C33_SideFollowsSignal ==
    [][(op' = "trade_signal" /\ Len(execution_requests') > Len(execution_requests)) =>
          LET request == execution_requests'[Len(execution_requests')]
              signal  == Get(args', "signal", "")
          IN  /\ signal \in {"BUY", "SELL"}
              /\ request.side = "buy" => signal = "BUY"
              /\ request.side = "sell" => signal = "SELL"]_vars

\* the fill follows the slippage direction invariant, with slippage not zero
FollowsSlippageDirection(data) ==
    LET side == Upper(Get(data, "side", "BUY"))
    IN  /\ Get(data, "price", 0) > 0
        /\ \/ side = "BUY" /\ Get(data, "slippage", 0) > 0
           \/ side = "SELL" /\ Get(data, "slippage", 0) < 0

\* C34: in the execution_filled handler every fill with price > 0 and
\* non-zero slippage of the sign the slippage direction gives (positive on
\* BUY, negative on SELL) is recorded as an incorrect prediction; such a BUY
\* fill increments consecutive_losses and such a SELL fill resets it to 0.
C34_DirectedFillIsIncorrect ==
    [][(op' = "execution_filled" /\ FollowsSlippageDirection(args')) =>
          /\ Len(engine'.recent_predictions) = Len(engine.recent_predictions) + 1
          /\ engine'.recent_predictions[Len(engine'.recent_predictions)] = FALSE
          /\ Upper(Get(args', "side", "BUY")) = "BUY" =>
                 engine'.consecutive_losses = engine.consecutive_losses + 1
          /\ Upper(Get(args', "side", "BUY")) = "SELL" =>
                 engine'.consecutive_losses = 0]_vars

\* a SELL fill with negative slippage, small against its price, has reset a
\* loss streak and is in the window as incorrect
C34_Witness ==
    /\ op = "execution_filled"
    /\ FollowsSlippageDirection(args)
    /\ Get(args, "side", "") = "SELL" /\ args.price = 1000000
    /\ Len(engine.recent_predictions) >= 2
    /\ ~engine.recent_predictions[Len(engine.recent_predictions)]
    /\ engine.recent_returns[Len(engine.recent_returns) - 1] < 0
    /\ engine.consecutive_losses = 0

\* C35: in paper mode every fill published on execution_filled has been
\* applied to exactly one portfolio, the one keyed by the request's
\* model_id, for every model_id value in the request (present, missing,
\* empty); no published fill is dropped as an orphan.
C35_PublishedFillIsApplied ==
    [][(op' = "paper_execution_request" /\
        Len(execution_filled') > Len(execution_filled)) =>
          LET key == Get(exec_msg', "model_id", "default_model")
              before == IF key \in DOMAIN manager.portfolios
                        THEN Len(manager.portfolios[key].history) ELSE 0
          IN  /\ key \in DOMAIN manager'.portfolios
              /\ Len(manager'.portfolios[key].history) = before + 1
              /\ FillsEntered(manager') = FillsEntered(manager) + 1]_vars

\* C36: a simulate_fill call that returns no fill (bad price, unknown side,
\* no position, zero qty, validator failure) leaves the PortfolioManager
\* unchanged: no portfolio is created and no cash, position or history
\* changes.
C36_RejectionLeavesManager ==
    [][(op' = "paper_execution_request" /\ ret' = RetBool(FALSE)) =>
          manager' = manager]_vars

\* C37: in live mode the quantity of every order submitted to the broker
\* equals the qty of the execution request that caused it.
C37_LiveOrderQtyIsRequestQty ==
    [][(op' = "live_execution_request" /\ Len(broker') > Len(broker)) =>
          /\ "qty" \in DOMAIN exec_msg'
          /\ broker'[Len(broker')].qty = exec_msg'.qty]_vars

\* C38: after a SELL fill of q shares at price p is applied through the
\* PortfolioManager to a position with average cost c, the portfolio's
\* entry from get_all_portfolios shows closed trades increased by 1,
\* realized_pnl increased by (p - c) * q, wins increased by 1 exactly when
\* (p - c) * q > 0, and win_rate = wins / closed trades.
C38_SellShowsOnLeaderboard ==
    [][(op' = "on_execution_fill" /\ Lower(args'.side) = "sell") =>
          \A pid \in DOMAIN manager.portfolios :
              (/\ manager'.portfolios[pid] # manager.portfolios[pid]
               /\ args'.symbol \in DOMAIN manager.portfolios[pid].positions) =>
                  LET c        == manager.portfolios[pid].positions[args'.symbol].avg_price
                      before   == get_all_portfolios(manager, current_prices)[pid]
                      after    == get_all_portfolios(manager', current_prices')[pid]
                      \* (p - c) * q, times the denominator of c
                      realized == (args'.price * c.den - c.num) * args'.qty
                  IN  /\ after.trades = before.trades + 1
                      /\ (after.realized_pnl - before.realized_pnl) * c.den = realized
                      /\ after.wins = before.wins + (IF realized > 0 THEN 1 ELSE 0)
                      /\ after.win_rate = Reduced(after.wins, after.trades)]_vars

\* C39: each call of publish_portfolios publishes one leaderboard message
\* whose models list holds one entry per portfolio sorted by equity
\* descending and whose best_model identifies the first entry, for every
\* set of portfolios including a non-empty one; the paper loop then records
\* the publish time so the next publish waits a full interval.
C39_LeaderboardPublished ==
    [][(/\ op' = "paper_market_data"
        /\ leaderboard'.now - leaderboard.last_publish_at >= PUBLISH_INTERVAL) =>
          LET updates == leaderboard'.paper_portfolio_updates IN
          /\ Len(updates) = Len(leaderboard.paper_portfolio_updates) + 1
          /\ LET models == updates[Len(updates)].models IN
             /\ {models[i].model_id : i \in 1..Len(models)} = DOMAIN manager.portfolios
             /\ Len(models) = Cardinality(DOMAIN manager.portfolios)
             /\ \A i \in 1..(Len(models) - 1) :
                    models[i].equity.num * models[i + 1].equity.den
                        >= models[i + 1].equity.num * models[i].equity.den
             /\ updates[Len(updates)].best_model =
                    IF models = << >> THEN None ELSE Some(models[1].model_id)
          /\ leaderboard'.last_publish_at = leaderboard'.now]_vars

\* the signals the strategies of a process_symbol call produce, an
\* exception of a strategy counting for none
Produced(call) ==
    LET one(model_id, outcome) ==
            IF outcome \in {"BUY", "SELL"}
            THEN {[symbol |-> call.symbol, signal |-> outcome, model_id |-> model_id]}
            ELSE {}
    IN  one("hybrid_ai", call.hybrid)
            \cup UNION {one(BASELINE_STRATEGIES[i], call.outcomes[i]) :
                            i \in DOMAIN call.outcomes}

\* C40: in the Signal Engine's per-symbol processing an exception raised by
\* one strategy does not prevent the signals of the other strategies for
\* that symbol from being published, and does not stop the processing of
\* other symbols or of later cycles.
C40_StrategyFailureIsContained ==
    [][(op' = "process_symbol" /\ args'.fetched) =>
          LET before == signal_engine.trade_signals
              after  == signal_engine'.trade_signals
          IN  /\ Len(after) >= Len(before)
              /\ {after[i] : i \in (Len(before) + 1)..Len(after)} = Produced(args')
              /\ signal_engine'.done = signal_engine.done \cup {args'.symbol}]_vars

====
